---- MODULE Spec2Model ----
(***************************************************************************)
(* Model of transect_extraction_functions.py: addpts (arc-length           *)
(* resampling of a polyline) and make_perp_transects (perpendicular        *)
(* transects at the interior points of a centerline).                      *)
(*                                                                         *)
(* Numbers.  A value in the state is the real number the code's float      *)
(* stands for: a pair <<n, d>> with d > 0 and gcd(n, d) = 1 is the         *)
(* rational n/d.  The IEEE specials numpy produces on a division by zero   *)
(* are <<1, 0>> (+inf), <<-1, 0>> (-inf) and <<0, 0>> (nan); <<0, -1>> is  *)
(* -0.0.  The inputs are drawn from sets on which every square root the    *)
(* code takes is the root of a perfect square, so the value is a rational. *)
(*                                                                         *)
(* Rounding.  Where the code turns a float into an integer, n = int((rem_l *)
(* + dL) / dl), the last bit of the float decides.  The quantities n       *)
(* depends on (the coordinates of the line, dl, dL, rem_l) are therefore   *)
(* also computed as the float64 they are, bit for bit: <<k, s, m, e>> is   *)
(* s * m * 2^e when k = 0 (s the sign, 1 or -1; m a natural number,        *)
(* written least digit first in base 2^14), an infinity when k = 1, nan    *)
(* when k = 2.  An input such as 0.3 or 0.1 is no float64: the float64     *)
(* quantities start from its rounding.  +, -, *, / and np.sqrt round to    *)
(* nearest, ties to even.  x**2 and x**(1/2) are pow of the C library,     *)
(* which is not correctly rounded: pow is computed as the library computes *)
(* it.  The number of points n is the one the float64 quantities give; it  *)
(* can differ from the one the exact values give.  Overflow and underflow  *)
(* do not occur on the values of the model.                                *)
(***************************************************************************)
EXTENDS Integers, Sequences, FiniteSets, TLC

----------------------------------------------------------------------------
(* Exact arithmetic on float values *)

Abs(a) == IF a < 0 THEN -a ELSE a

Sign(a) == IF a < 0 THEN -1 ELSE IF a > 0 THEN 1 ELSE 0

RECURSIVE GCD(_, _)
GCD(a, b) == IF b = 0 THEN a ELSE GCD(b, a % b)

\* The float with value n/d (d # 0), in lowest terms with a positive denominator.
Norm(n, d) ==
  LET g == GCD(Abs(n), Abs(d))
      s == IF d < 0 THEN -1 ELSE 1
  IN  <<(s * n) \div g, (s * d) \div g>>

R(n) == <<n, 1>>

Zero == R(0)
NegZero == <<0, -1>>
PosInf == <<1, 0>>
NegInf == <<-1, 0>>
NaN == <<0, 0>>

IsFin(a) == a[2] # 0
IsNaN(a) == a = NaN
IsInf(a) == a[2] = 0 /\ a[1] # 0
IsZero(a) == a[1] = 0 /\ a[2] # 0

\* The sign bit of a float, as 1 or -1: -0.0 and -inf are negative.
SignOf(a) ==
  IF a[1] < 0 THEN -1 ELSE IF a[1] > 0 THEN 1 ELSE IF a[2] < 0 THEN -1 ELSE 1

\* The zero of sign s.
SignedZero(s) == <<0, s>>

\* Comparisons of finite floats (-0.0 == 0.0: the denominator of a zero counts
\* by its absolute value).
RLess(a, b) == a[1] * Abs(b[2]) < b[1] * Abs(a[2])
RLeq(a, b) == a[1] * Abs(b[2]) <= b[1] * Abs(a[2])

\* a + b, a - b, a * b on floats (IEEE rules for inf, nan and the sign of a
\* zero: a zero sum is -0.0 only when both terms are -0.0).
XAdd(a, b) ==
  IF IsNaN(a) \/ IsNaN(b) THEN NaN
  ELSE IF IsInf(a) /\ IsInf(b) THEN (IF a = b THEN a ELSE NaN)
  ELSE IF IsInf(a) THEN a
  ELSE IF IsInf(b) THEN b
  ELSE IF a = NegZero /\ b = NegZero THEN NegZero
  ELSE Norm(a[1] * Abs(b[2]) + b[1] * Abs(a[2]), Abs(a[2] * b[2]))

XNeg(a) == IF a[1] = 0 THEN <<0, -a[2]>> ELSE <<-a[1], a[2]>>

XSub(a, b) == XAdd(a, XNeg(b))

XMul(a, b) ==
  IF IsNaN(a) \/ IsNaN(b) THEN NaN
  ELSE IF IsInf(a) \/ IsInf(b)
       THEN (IF IsZero(a) \/ IsZero(b) THEN NaN ELSE <<SignOf(a) * SignOf(b), 0>>)
  ELSE IF IsZero(a) \/ IsZero(b) THEN SignedZero(SignOf(a) * SignOf(b))
  ELSE Norm(a[1] * b[1], a[2] * b[2])

\* a / b on numpy float64 scalars: a division by zero gives inf or nan (with a
\* RuntimeWarning), never an exception; the sign of the result is the product
\* of the signs, those of the zeros included (-1 / -0.0 = +inf).
XDiv(a, b) ==
  IF IsNaN(a) \/ IsNaN(b) THEN NaN
  ELSE IF IsInf(a) THEN (IF IsInf(b) THEN NaN ELSE <<SignOf(a) * SignOf(b), 0>>)
  ELSE IF IsInf(b) THEN SignedZero(SignOf(a) * SignOf(b))
  ELSE IF IsZero(b) THEN (IF IsZero(a) THEN NaN ELSE <<SignOf(a) * SignOf(b), 0>>)
  ELSE IF IsZero(a) THEN SignedZero(SignOf(a) * SignOf(b))
  ELSE Norm(a[1] * b[2], a[2] * b[1])

\* Floor of the square root of n > 0, by Newton's iteration from x >= sqrt(n).
RECURSIVE SqrtFrom(_, _)
SqrtFrom(n, x) ==
  LET y == (x + n \div x) \div 2 IN IF y >= x THEN x ELSE SqrtFrom(n, y)

\* Integer square root (exact on perfect squares).
ISqrt(n) == IF n = 0 THEN 0 ELSE SqrtFrom(n, n)

IsSquare(n) == n >= 0 /\ ISqrt(n) * ISqrt(n) = n

\* a ** (1/2) and np.sqrt(a): exact wherever the root is rational.
XSqrt(a) ==
  IF IsNaN(a) \/ a[1] < 0 THEN NaN
  ELSE IF IsInf(a) THEN PosInf
  ELSE IF IsZero(a) THEN a
  ELSE Norm(ISqrt(a[1]), ISqrt(a[2]))

\* int(a) of Python: truncation toward zero (a finite).
Trunc(a) ==
  IF IsZero(a) THEN 0
  ELSE IF a[1] >= 0 THEN a[1] \div a[2] ELSE -((-a[1]) \div a[2])

Last(s) == s[Len(s)]

----------------------------------------------------------------------------
(* float64 arithmetic *)
(* CHOOSE r \in {F(x) : x \in {e}} : TRUE is F(e) with e computed once, as  *)
(* Python computes a value once before it is used.                         *)

\* Bits of a digit of a natural number, and of the mantissa of a float64.
DigitBits == 14
MantBits == 53

RECURSIVE Pow2(_)
Pow2(k) == IF k = 0 THEN 1 ELSE 2 * Pow2(k - 1)

Base == Pow2(DigitBits)

\* Naturals of any size: little-endian sequences of digits in 0..Base-1, the
\* last digit nonzero; <<>> is 0.
RECURSIVE Strip(_)
Strip(a) == IF a = <<>> \/ Last(a) # 0 THEN a ELSE Strip(SubSeq(a, 1, Len(a) - 1))

Big(n) == IF n = 0 THEN <<>> ELSE IF n < Base THEN <<n>>
          ELSE IF n < Base * Base THEN <<n % Base, n \div Base>>
          ELSE <<n % Base, (n \div Base) % Base, n \div (Base * Base)>>

RECURSIVE AddFrom(_, _, _, _, _)
AddFrom(a, b, k, c, acc) ==
  IF k > Len(a) /\ k > Len(b)
  THEN (IF c = 0 THEN acc ELSE Append(acc, c))
  ELSE LET s == (IF k <= Len(a) THEN a[k] ELSE 0) + (IF k <= Len(b) THEN b[k] ELSE 0) + c
       IN  AddFrom(a, b, k + 1, s \div Base, Append(acc, s % Base))

BAdd(a, b) == AddFrom(a, b, 1, 0, <<>>)

\* a - b, a >= b
RECURSIVE SubFrom(_, _, _, _, _)
SubFrom(a, b, k, c, acc) ==
  IF k > Len(a) THEN Strip(acc)
  ELSE LET s == a[k] - (IF k <= Len(b) THEN b[k] ELSE 0) - c
       IN  IF s < 0 THEN SubFrom(a, b, k + 1, 1, Append(acc, s + Base))
           ELSE SubFrom(a, b, k + 1, 0, Append(acc, s))

BSub(a, b) == SubFrom(a, b, 1, 0, <<>>)

\* -1, 0, 1 as a < b, a = b, a > b
RECURSIVE CmpFrom(_, _, _)
CmpFrom(a, b, k) ==
  IF k = 0 THEN 0
  ELSE IF a[k] < b[k] THEN -1 ELSE IF a[k] > b[k] THEN 1 ELSE CmpFrom(a, b, k - 1)

BCmp(a, b) ==
  IF Len(a) < Len(b) THEN -1 ELSE IF Len(a) > Len(b) THEN 1 ELSE CmpFrom(a, b, Len(a))

\* a * m, 0 <= m < Base
RECURSIVE MulSmallFrom(_, _, _, _, _)
MulSmallFrom(a, m, k, c, acc) ==
  IF k > Len(a) THEN (IF c = 0 THEN acc ELSE Append(acc, c))
  ELSE LET s == a[k] * m + c
       IN  MulSmallFrom(a, m, k + 1, s \div Base, Append(acc, s % Base))

BMulSmall(a, m) == IF m = 0 \/ a = <<>> THEN <<>> ELSE MulSmallFrom(a, m, 1, 0, <<>>)

Zeros(w) == [j \in 1..w |-> 0]

RECURSIVE MulFrom(_, _, _, _)
MulFrom(a, b, k, acc) ==
  IF k > Len(b) THEN acc
  ELSE MulFrom(a, b, k + 1, BAdd(acc, Zeros(k - 1) \o BMulSmall(a, b[k])))

BMul(a, b) == IF a = <<>> \/ b = <<>> THEN <<>> ELSE MulFrom(a, b, 1, <<>>)

\* Number of bits of 0 <= n < Base
RECURSIVE SmallBits(_)
SmallBits(n) == IF n = 0 THEN 0 ELSE 1 + SmallBits(n \div 2)

BitLen(a) == IF a = <<>> THEN 0 ELSE DigitBits * (Len(a) - 1) + SmallBits(Last(a))

\* a * 2^k
BShl(a, k) ==
  IF a = <<>> THEN <<>> ELSE Zeros(k \div DigitBits) \o BMulSmall(a, Pow2(k % DigitBits))

\* a \div m, 0 < m < Base
RECURSIVE DivSmallFrom(_, _, _, _, _)
DivSmallFrom(a, m, k, r, acc) ==
  IF k = 0 THEN Strip(acc)
  ELSE LET t == r * Base + a[k]
       IN  DivSmallFrom(a, m, k - 1, t % m, <<t \div m>> \o acc)

BDivSmall(a, m) == DivSmallFrom(a, m, Len(a), 0, <<>>)

\* a \div 2^k
BShr(a, k) ==
  IF k \div DigitBits >= Len(a) THEN <<>>
  ELSE BDivSmall(SubSeq(a, k \div DigitBits + 1, Len(a)), Pow2(k % DigitBits))

\* Number of trailing zero bits of a # 0
RECURSIVE SmallTz(_)
SmallTz(n) == IF n % 2 = 1 THEN 0 ELSE 1 + SmallTz(n \div 2)

RECURSIVE TzFrom(_, _)
TzFrom(a, k) == IF a[k] # 0 THEN DigitBits * (k - 1) + SmallTz(a[k]) ELSE TzFrom(a, k + 1)

BTz(a) == TzFrom(a, 1)

BOdd(a) == a # <<>> /\ a[1] % 2 = 1

\* The digit q with q * b <= r < (q + 1) * b, from the estimate qh >= q.
RECURSIVE DigitFrom(_, _, _)
DigitFrom(r, b, qh) ==
  IF BCmp(BMulSmall(b, qh), r) <= 0 THEN qh ELSE DigitFrom(r, b, qh - 1)

\* Top two digits of r over the top digit of b (b of n digits, top digit
\* >= Base/2, r < b * Base): at most 2 above the true digit.
Estimate(r, b) ==
  LET n == Len(b)
      hi == IF Len(r) > n THEN r[n + 1] ELSE 0
      lo == IF Len(r) >= n THEN r[n] ELSE 0
      e == (hi * Base + lo) \div b[n]
  IN  IF e > Base - 1 THEN Base - 1 ELSE e

\* Long division of a by b, digit k downto 1; r the running remainder.
RECURSIVE DivFrom(_, _, _, _, _)
DivFrom(a, b, k, r, q) ==
  IF k = 0 THEN <<Strip(q), r>>
  ELSE CHOOSE res \in
         {DivFrom(a, b, k - 1, BSub(td[1], BMulSmall(b, td[2])), <<td[2]>> \o q)
          : td \in {CHOOSE x \in {<<t, DigitFrom(t, b, Estimate(t, b))>>
                                   : t \in {Strip(<<a[k]>> \o r)}} : TRUE}} : TRUE

\* <<a \div b, (a % b) * 2^s>> with s the normalising shift; b # 0.  The
\* remainder is only compared with b * 2^s or with 0.
BDivMod(a, b) ==
  LET s == DigitBits - SmallBits(Last(b))
  IN  CHOOSE res \in {DivFrom(x, y, Len(x), <<>>, <<>>)
                       : x \in {BShl(a, s)}, y \in {BShl(b, s)}} : TRUE

\* Floor of the square root of a, by Newton's iteration from x >= sqrt(a).
RECURSIVE SqrtIter(_, _)
SqrtIter(a, x) ==
  CHOOSE res \in
    {IF BCmp(y, x) >= 0 THEN x ELSE SqrtIter(a, y)
     : y \in {BShr(BAdd(x, BDivMod(a, x)[1]), 1)}} : TRUE

\* Floor of the square root of 0 <= t < Base^2, by Newton's iteration
RECURSIVE SmallSqrtIter(_, _)
SmallSqrtIter(t, x) ==
  LET y == (x + t \div x) \div 2 IN IF y >= x THEN x ELSE SmallSqrtIter(t, y)

SmallSqrt(t) == IF t = 0 THEN 0 ELSE SmallSqrtIter(t, Base)

\* The first iterate is the root of the top two digits, rounded up (the root
\* of Base is 2^(DigitBits / 2)).
BSqrt(a) ==
  IF Len(a) <= 1 THEN Big(SmallSqrt(IF a = <<>> THEN 0 ELSE a[1]))
  ELSE SqrtIter(a, BShl(Big(SmallSqrt(a[Len(a)] * Base + a[Len(a) - 1]) + 1),
                        (DigitBits \div 2) * (Len(a) - 2)))

\* float64: <<k, s, m, e>>, k = 0 finite with value s * m * 2^e (m a natural,
\* odd or zero, e = 0 when m = 0), k = 1 an infinity of sign s, k = 2 nan.
FZero(s) == <<0, s, <<>>, 0>>
FInf(s) == <<1, s, <<>>, 0>>
FNaN == <<2, 1, <<>>, 0>>

FIsNaN(a) == a[1] = 2
FIsInf(a) == a[1] = 1
FIsZero(a) == a[1] = 0 /\ a[3] = <<>>

\* m * 2^e exactly, m # 0 of at most MantBits bits: trailing zeros moved to e.
Canon(s, m, e) ==
  CHOOSE res \in {<<0, s, BShr(m, t), e + t>> : t \in {BTz(m)}} : TRUE

\* Round to nearest, ties to even, of s * m * 2^e (m # 0), to MantBits bits.
Round(s, m, e) ==
  CHOOSE res \in
    {IF k <= 0 THEN Canon(s, m, e)
     ELSE CHOOSE r2 \in
       {LET c == BCmp(BSub(m, BShl(q, k)), BShl(<<1>>, k - 1))
        IN  IF c > 0 \/ (c = 0 /\ BOdd(q)) THEN Canon(s, BAdd(q, <<1>>), e + k)
            ELSE Canon(s, q, e + k)
        : q \in {BShr(m, k)}} : TRUE
     : k \in {BitLen(m) - MantBits}} : TRUE

\* The float of the integer n
FInt(n) ==
  IF n = 0 THEN FZero(1) ELSE Canon(IF n < 0 THEN -1 ELSE 1, Big(Abs(n)), 0)

FNeg(a) == <<a[1], IF a[1] = 2 THEN 1 ELSE -a[2], a[3], a[4]>>

\* s1 * m1 * 2^e1 + s2 * m2 * 2^e2 (m1, m2 # 0), rounded
AddExact(s1, m1, e1, s2, m2, e2) ==
  CHOOSE res \in
    {CHOOSE r2 \in
       {IF s1 = s2 THEN Round(s1, BAdd(xy[1], xy[2]), e)
        ELSE CHOOSE r3 \in
          {IF c = 0 THEN FZero(1)
           ELSE IF c > 0 THEN Round(s1, BSub(xy[1], xy[2]), e)
           ELSE Round(s2, BSub(xy[2], xy[1]), e)
           : c \in {BCmp(xy[1], xy[2])}} : TRUE
        : xy \in {<<BShl(m1, e1 - e), BShl(m2, e2 - e)>>}} : TRUE
     : e \in {IF e1 < e2 THEN e1 ELSE e2}} : TRUE

\* Sum of finite nonzero a, b
AddFinite(a, b) == AddExact(a[2], a[3], a[4], b[2], b[3], b[4])

FAdd(a, b) ==
  IF FIsNaN(a) \/ FIsNaN(b) THEN FNaN
  ELSE IF FIsInf(a) /\ FIsInf(b) THEN (IF a[2] = b[2] THEN a ELSE FNaN)
  ELSE IF FIsInf(a) THEN a
  ELSE IF FIsInf(b) THEN b
  ELSE IF FIsZero(a) /\ FIsZero(b) THEN (IF a[2] = -1 /\ b[2] = -1 THEN a ELSE FZero(1))
  ELSE IF FIsZero(a) THEN b
  ELSE IF FIsZero(b) THEN a
  ELSE AddFinite(a, b)

FSub(a, b) == FAdd(a, FNeg(b))

FMul(a, b) ==
  IF FIsNaN(a) \/ FIsNaN(b) THEN FNaN
  ELSE IF FIsInf(a) \/ FIsInf(b)
       THEN (IF FIsZero(a) \/ FIsZero(b) THEN FNaN ELSE FInf(a[2] * b[2]))
  ELSE IF FIsZero(a) \/ FIsZero(b) THEN FZero(a[2] * b[2])
  ELSE Round(a[2] * b[2], BMul(a[3], b[3]), a[4] + b[4])

\* Quotient of finite nonzero a, b: 3 bits beyond the mantissa and a sticky bit.
DivFinite(a, b) ==
  CHOOSE res \in
    {Round(a[2] * b[2],
           BAdd(BShl(qr[2][1], 1), IF qr[2][2] = <<>> THEN <<>> ELSE <<1>>),
           a[4] - b[4] - qr[1] - 1)
     : qr \in {CHOOSE x \in {<<sh, BDivMod(BShl(a[3], sh), b[3])>>
                             : sh \in {MantBits + 3 + BitLen(b[3]) - BitLen(a[3])}} : TRUE}} : TRUE

FDiv(a, b) ==
  IF FIsNaN(a) \/ FIsNaN(b) THEN FNaN
  ELSE IF FIsInf(a) THEN (IF FIsInf(b) THEN FNaN ELSE FInf(a[2] * b[2]))
  ELSE IF FIsInf(b) THEN FZero(a[2] * b[2])
  ELSE IF FIsZero(b) THEN (IF FIsZero(a) THEN FNaN ELSE FInf(a[2] * b[2]))
  ELSE IF FIsZero(a) THEN FZero(a[2] * b[2])
  ELSE DivFinite(a, b)

\* Square root of finite a > 0
SqrtFinite(a) ==
  CHOOSE res \in
    {CHOOSE r2 \in
       {CHOOSE r3 \in
          {Round(1, BAdd(BShl(r, 1), IF BCmp(BMul(r, r), n) = 0 THEN <<>> ELSE <<1>>),
                 (a[4] - sh) \div 2 - 1)
           : r \in {BSqrt(n)}} : TRUE
        : n \in {BShl(a[3], sh)}} : TRUE
     : sh \in {LET w == 2 * MantBits + 6 - BitLen(a[3])
               IN  IF (a[4] - w) % 2 = 0 THEN w ELSE w - 1}} : TRUE

FSqrt(a) ==
  IF FIsNaN(a) THEN FNaN
  ELSE IF FIsZero(a) THEN a
  ELSE IF a[2] < 0 THEN FNaN
  ELSE IF FIsInf(a) THEN a
  ELSE SqrtFinite(a)

\* int(a): truncation toward zero (a finite, |a| < Base^2)
FTrunc(a) ==
  IF FIsZero(a) THEN 0
  ELSE LET t == IF a[4] >= 0 THEN BShl(a[3], a[4]) ELSE BShr(a[3], -a[4])
           v == IF t = <<>> THEN 0 ELSE IF Len(t) = 1 THEN t[1] ELSE t[1] + Base * t[2]
       IN  a[2] * v

\* The float64 nearest to the value a.
F64(a) ==
  IF IsNaN(a) THEN FNaN
  ELSE IF IsInf(a) THEN FInf(a[1])
  ELSE IF IsZero(a) THEN FZero(a[2])
  ELSE IF a[2] = 1 THEN FInt(a[1])
  ELSE FDiv(FInt(a[1]), FInt(a[2]))

F64Pt(p) == <<F64(p[1]), F64(p[2])>>

\* The float64 coordinates of the LineString built from the values coords.
Coords64(coords) == [k \in 1..Len(coords) |-> F64Pt(coords[k])]

----------------------------------------------------------------------------
(* x ** y on a float: pow of the C library                                  *)
(*                                                                          *)
(* A float ** is pow(x, y) of the C library.  pow is accurate to within one *)
(* unit in the last place and is not correctly rounded: the last bit of     *)
(* x ** 2 and of x ** (1/2) is the library's, and n = int((rem_l + dL) /    *)
(* dl) can depend on it.  pow is therefore modelled as glibc 2.36 computes  *)
(* it on x86-64 with fused multiply-add, operation by operation:            *)
(*   x = 2^k * z with z in [0.7057, 1.4114), c the table point next to z,   *)
(*   log(x) = k * ln2 + log(c) + log1p(z/c - 1) as the sum of two floats,   *)
(*   y * log(x) = ehi + elo = (n/128) * ln2 + r,  pow = 2^(n/128) * exp(r). *)
(* The special cases (x = 0, infinite, nan, 1) are decided before, by       *)
(* Python and by pow.  Results beyond the range of the normal floats do not *)
(* occur on the values of the model.                                        *)

\* fma(a, b, c): a * b + c rounded once (a, b, c finite)
FFma(a, b, c) ==
  IF FIsZero(a) \/ FIsZero(b) THEN FAdd(FZero(a[2] * b[2]), c)
  ELSE IF FIsZero(c) THEN Round(a[2] * b[2], BMul(a[3], b[3]), a[4] + b[4])
  ELSE AddExact(a[2] * b[2], BMul(a[3], b[3]), a[4] + b[4], c[2], c[3], c[4])

\* The value of a natural below Base^2
BSmall(a) == IF a = <<>> THEN 0 ELSE IF Len(a) = 1 THEN a[1] ELSE a[1] + Base * a[2]

\* The exponent of a finite a # 0: 2^Exponent(a) <= |a| < 2^(Exponent(a) + 1)
Exponent(a) == a[4] + BitLen(a[3]) - 1

\* asuint64(a): the 64-bit pattern of a normal float a > 0
AsUint(a) ==
  BAdd(BShl(Big(Exponent(a) + 1022), MantBits - 1),
       BShl(a[3], MantBits - BitLen(a[3])))

\* asdouble(u): the float of the 64-bit pattern u (a normal float > 0)
AsDouble(u) ==
  CHOOSE res \in
    {Canon(1, BAdd(BShl(<<1>>, MantBits - 1), BSub(u, BShl(Big(eb), MantBits - 1))),
           eb - 1075)
     : eb \in {BSmall(BShr(u, MantBits - 1))}} : TRUE

Ln2hi == <<0, 1, <<8007, 8575, 11356>>, -42>>

Ln2lo == <<0, 1, <<13939, 9457, 13143, 123>>, -93>>

\* The coefficients A[0], ..., A[6] of the polynomial of log1p.
PowLogPoly ==
  << <<0, -1, <<1>>, -1>>,
   <<0, -1, <<10923, 10922, 10922, 42>>, -48>>,
   <<0, 1, <<3, 0, 0, 512>>, -52>>,
   <<0, 1, <<10919, 12978, 3276, 819>>, -52>>,
   <<0, -1, <<4669, 10835, 10922, 682>>, -52>>,
   <<0, -1, <<1513, 11553, 5561, 1170>>, -52>>,
   <<0, 1, <<16323, 11416, 696, 1024>>, -52>> >>

\* T[i] = <<invc, logc, logctail>>, i = 0, ..., 127: 1/c, and log(c) in two
\* parts, for a c near the middle of the i-th interval of [0.7057, 1.4114).
PowLogTab ==
  << <<<<0, 1, <<181>>, -7>>, <<0, -1, <<5945, 377, 11353>>, -43>>, <<0, 1, <<11949, 8513, 5764, 13>>, -93>>>>,
   <<<<0, 1, <<45>>, -5>>, <<0, -1, <<11009, 7903, 11171>>, -43>>, <<0, -1, <<1977, 6940, 4740, 57>>, -93>>>>,
   <<<<0, 1, <<179>>, -7>>, <<0, -1, <<10411, 15243, 10988>>, -43>>, <<0, -1, <<4205, 5849, 10829, 1240>>, -97>>>>,
   <<<<0, 1, <<89>>, -6>>, <<0, -1, <<9663, 5827, 10805>>, -43>>, <<0, -1, <<10197, 15041, 3657, 1441>>, -101>>>>,
   <<<<0, 1, <<177>>, -7>>, <<0, -1, <<12015, 12234, 10620>>, -43>>, <<0, -1, <<2551, 12901, 3508, 40>>, -94>>>>,
   <<<<0, 1, <<11>>, -3>>, <<0, -1, <<4323, 12664, 2608>>, -41>>, <<0, 1, <<8499, 2124, 8381, 317>>, -96>>>>,
   <<<<0, 1, <<175>>, -7>>, <<0, -1, <<4309, 6211, 10248>>, -43>>, <<0, 1, <<1437, 6916, 6047, 904>>, -101>>>>,
   <<<<0, 1, <<87>>, -6>>, <<0, -1, <<11561, 9770, 10060>>, -43>>, <<0, 1, <<3235, 4298, 6371, 33>>, -92>>>>,
   <<<<0, 1, <<173>>, -7>>, <<0, -1, <<13617, 16108, 616>>, -39>>, <<0, 1, <<73, 10635, 2670, 683>>, -96>>>>,
   <<<<0, 1, <<43>>, -5>>, <<0, -1, <<5897, 7255, 2420>>, -41>>, <<0, 1, <<9595, 3291, 13885, 179>>, -94>>>>,
   <<<<0, 1, <<171>>, -7>>, <<0, -1, <<15313, 11529, 9490>>, -43>>, <<0, 1, <<12351, 6974, 8523, 1394>>, -98>>>>,
   <<<<0, 1, <<171>>, -7>>, <<0, -1, <<15313, 11529, 9490>>, -43>>, <<0, 1, <<12351, 6974, 8523, 1394>>, -98>>>>,
   <<<<0, 1, <<85>>, -6>>, <<0, -1, <<14831, 8445, 9298>>, -43>>, <<0, -1, <<11579, 4263, 4385, 715>>, -97>>>>,
   <<<<0, 1, <<169>>, -7>>, <<0, -1, <<11571, 3168, 9105>>, -43>>, <<0, -1, <<5377, 10471, 16113, 506>>, -96>>>>,
   <<<<0, 1, <<21>>, -4>>, <<0, -1, <<13685, 11861, 8910>>, -43>>, <<0, 1, <<10895, 3296, 8134, 124>>, -94>>>>,
   <<<<0, 1, <<167>>, -7>>, <<0, -1, <<13769, 1532, 8715>>, -43>>, <<0, -1, <<11571, 14858, 1575, 725>>, -96>>>>,
   <<<<0, 1, <<83>>, -6>>, <<0, -1, <<10041, 2360, 4259>>, -42>>, <<0, -1, <<391, 15848, 8051, 909>>, -98>>>>,
   <<<<0, 1, <<165>>, -7>>, <<0, -1, <<2893, 2405, 4160>>, -42>>, <<0, -1, <<11647, 15312, 11145, 1037>>, -100>>>>,
   <<<<0, 1, <<165>>, -7>>, <<0, -1, <<2893, 2405, 4160>>, -42>>, <<0, -1, <<11647, 15312, 11145, 1037>>, -100>>>>,
   <<<<0, 1, <<41>>, -5>>, <<0, -1, <<13689, 4486, 2030>>, -41>>, <<0, 1, <<15495, 11876, 12970, 1877>>, -99>>>>,
   <<<<0, 1, <<163>>, -7>>, <<0, -1, <<7907, 5561, 3960>>, -42>>, <<0, 1, <<11209, 7302, 6878, 434>>, -95>>>>,
   <<<<0, 1, <<81>>, -6>>, <<0, -1, <<8879, 475, 7719>>, -43>>, <<0, -1, <<16369, 5391, 12111, 92>>, -94>>>>,
   <<<<0, 1, <<161>>, -7>>, <<0, -1, <<11583, 534, 1879>>, -41>>, <<0, 1, <<10267, 12073, 10523, 1134>>, -97>>>>,
   <<<<0, 1, <<5>>, -2>>, <<0, -1, <<15573, 16120, 3655>>, -42>>, <<0, 1, <<8461, 10399, 9533, 375>>, -95>>>>,
   <<<<0, 1, <<5>>, -2>>, <<0, -1, <<15573, 16120, 3655>>, -42>>, <<0, 1, <<8461, 10399, 9533, 375>>, -95>>>>,
   <<<<0, 1, <<159>>, -7>>, <<0, -1, <<729, 8605, 7106>>, -43>>, <<0, 1, <<14223, 1582, 11011, 1619>>, -98>>>>,
   <<<<0, 1, <<79>>, -6>>, <<0, -1, <<14851, 15508, 1724>>, -41>>, <<0, 1, <<2099, 16283, 13081, 841>>, -103>>>>,
   <<<<0, 1, <<157>>, -7>>, <<0, -1, <<15915, 12039, 6691>>, -43>>, <<0, -1, <<8437, 14477, 8998, 689>>, -96>>>>,
   <<<<0, 1, <<157>>, -7>>, <<0, -1, <<15915, 12039, 6691>>, -43>>, <<0, -1, <<8437, 14477, 8998, 689>>, -96>>>>,
   <<<<0, 1, <<39>>, -5>>, <<0, -1, <<3909, 5799, 6482>>, -43>>, <<0, -1, <<5347, 4871, 7568, 1716>>, -97>>>>,
   <<<<0, 1, <<155>>, -7>>, <<0, -1, <<4621, 10265, 6271>>, -43>>, <<0, 1, <<14857, 16239, 7159, 1775>>, -97>>>>,
   <<<<0, 1, <<77>>, -6>>, <<0, -1, <<4231, 12576, 3029>>, -42>>, <<0, 1, <<10571, 14633, 14112, 222>>, -94>>>>,
   <<<<0, 1, <<77>>, -6>>, <<0, -1, <<4231, 12576, 3029>>, -42>>, <<0, 1, <<10571, 14633, 14112, 222>>, -94>>>>,
   <<<<0, 1, <<153>>, -7>>, <<0, -1, <<12701, 1017, 5846>>, -43>>, <<0, -1, <<12595, 1893, 9045, 540>>, -97>>>>,
   <<<<0, 1, <<19>>, -4>>, <<0, -1, <<2681, 3100, 5631>>, -43>>, <<0, -1, <<4153, 15425, 9273, 1959>>, -98>>>>,
   <<<<0, 1, <<19>>, -4>>, <<0, -1, <<2681, 3100, 5631>>, -43>>, <<0, -1, <<4153, 15425, 9273, 1959>>, -98>>>>,
   <<<<0, 1, <<151>>, -7>>, <<0, -1, <<14875, 14712, 5414>>, -43>>, <<0, -1, <<7055, 29, 10425, 1079>>, -97>>>>,
   <<<<0, 1, <<75>>, -6>>, <<0, -1, <<6551, 10587, 649>>, -40>>, <<0, 1, <<7695, 8501, 13061, 368>>, -96>>>>,
   <<<<0, 1, <<75>>, -6>>, <<0, -1, <<6551, 10587, 649>>, -40>>, <<0, 1, <<7695, 8501, 13061, 368>>, -96>>>>,
   <<<<0, 1, <<149>>, -7>>, <<0, -1, <<489, 16136, 4977>>, -43>>, <<0, 1, <<10781, 6734, 1074, 559>>, -99>>>>,
   <<<<0, 1, <<37>>, -5>>, <<0, -1, <<511, 5310, 4757>>, -43>>, <<0, -1, <<14465, 3000, 6752, 164>>, -94>>>>,
   <<<<0, 1, <<147>>, -7>>, <<0, -1, <<10619, 9562, 2267>>, -42>>, <<0, -1, <<4555, 12323, 1312, 976>>, -96>>>>,
   <<<<0, 1, <<147>>, -7>>, <<0, -1, <<10619, 9562, 2267>>, -42>>, <<0, -1, <<4555, 12323, 1312, 976>>, -96>>>>,
   <<<<0, 1, <<73>>, -6>>, <<0, -1, <<3337, 8095, 4311>>, -43>>, <<0, 1, <<5885, 2280, 9818, 422>>, -97>>>>,
   <<<<0, 1, <<73>>, -6>>, <<0, -1, <<3337, 8095, 4311>>, -43>>, <<0, 1, <<5885, 2280, 9818, 422>>, -97>>>>,
   <<<<0, 1, <<145>>, -7>>, <<0, -1, <<3807, 4646, 4086>>, -43>>, <<0, -1, <<6649, 14662, 10914, 686>>, -96>>>>,
   <<<<0, 1, <<9>>, -3>>, <<0, -1, <<11819, 7197, 482>>, -40>>, <<0, 1, <<15, 10992, 4272, 419>>, -95>>>>,
   <<<<0, 1, <<9>>, -3>>, <<0, -1, <<11819, 7197, 482>>, -40>>, <<0, 1, <<15, 10992, 4272, 419>>, -95>>>>,
   <<<<0, 1, <<143>>, -7>>, <<0, -1, <<15727, 9544, 1815>>, -42>>, <<0, -1, <<7939, 12479, 8890, 929>>, -97>>>>,
   <<<<0, 1, <<71>>, -6>>, <<0, -1, <<4695, 3495, 3401>>, -43>>, <<0, 1, <<13657, 13357, 12907, 169>>, -94>>>>,
   <<<<0, 1, <<71>>, -6>>, <<0, -1, <<4695, 3495, 3401>>, -43>>, <<0, 1, <<13657, 13357, 12907, 169>>, -94>>>>,
   <<<<0, 1, <<141>>, -7>>, <<0, -1, <<12685, 10426, 3169>>, -43>>, <<0, 1, <<10957, 9879, 14418, 155>>, -95>>>>,
   <<<<0, 1, <<141>>, -7>>, <<0, -1, <<12685, 10426, 3169>>, -43>>, <<0, 1, <<10957, 9879, 14418, 155>>, -95>>>>,
   <<<<0, 1, <<35>>, -5>>, <<0, -1, <<5931, 6737, 2936>>, -43>>, <<0, -1, <<14829, 4710, 14782, 722>>, -96>>>>,
   <<<<0, 1, <<139>>, -7>>, <<0, -1, <<14385, 8423, 2701>>, -43>>, <<0, 1, <<7767, 1817, 9654, 1984>>, -98>>>>,
   <<<<0, 1, <<139>>, -7>>, <<0, -1, <<14385, 8423, 2701>>, -43>>, <<0, 1, <<7767, 1817, 9654, 1984>>, -98>>>>,
   <<<<0, 1, <<69>>, -6>>, <<0, -1, <<12511, 15090, 2464>>, -43>>, <<0, 1, <<5087, 13284, 11692, 1815>>, -97>>>>,
   <<<<0, 1, <<69>>, -6>>, <<0, -1, <<12511, 15090, 2464>>, -43>>, <<0, 1, <<5087, 13284, 11692, 1815>>, -97>>>>,
   <<<<0, 1, <<137>>, -7>>, <<0, -1, <<7495, 10679, 556>>, -41>>, <<0, 1, <<8969, 6718, 1511, 1311>>, -98>>>>,
   <<<<0, 1, <<17>>, -4>>, <<0, -1, <<35, 4486, 993>>, -42>>, <<0, 1, <<3729, 3290, 6632, 1878>>, -97>>>>,
   <<<<0, 1, <<17>>, -4>>, <<0, -1, <<35, 4486, 993>>, -42>>, <<0, 1, <<3729, 3290, 6632, 1878>>, -97>>>>,
   <<<<0, 1, <<135>>, -7>>, <<0, -1, <<8755, 5867, 872>>, -42>>, <<0, 1, <<7187, 9686, 2539, 456>>, -96>>>>,
   <<<<0, 1, <<135>>, -7>>, <<0, -1, <<8755, 5867, 872>>, -42>>, <<0, 1, <<7187, 9686, 2539, 456>>, -96>>>>,
   <<<<0, 1, <<67>>, -6>>, <<0, -1, <<6347, 1423, 1501>>, -43>>, <<0, -1, <<4343, 10725, 8753, 927>>, -96>>>>,
   <<<<0, 1, <<67>>, -6>>, <<0, -1, <<6347, 1423, 1501>>, -43>>, <<0, -1, <<4343, 10725, 8753, 927>>, -96>>>>,
   <<<<0, 1, <<133>>, -7>>, <<0, -1, <<10235, 10363, 1255>>, -43>>, <<0, 1, <<16213, 10829, 5567, 672>>, -99>>>>,
   <<<<0, 1, <<133>>, -7>>, <<0, -1, <<10235, 10363, 1255>>, -43>>, <<0, 1, <<16213, 10829, 5567, 672>>, -99>>>>,
   <<<<0, 1, <<33>>, -5>>, <<0, -1, <<8655, 333, 63>>, -39>>, <<0, -1, <<633, 15486, 153, 408>>, -95>>>>,
   <<<<0, 1, <<33>>, -5>>, <<0, -1, <<8655, 333, 63>>, -39>>, <<0, -1, <<633, 15486, 153, 408>>, -95>>>>,
   <<<<0, 1, <<131>>, -7>>, <<0, -1, <<4011, 2264, 759>>, -43>>, <<0, -1, <<9785, 4074, 5449, 1571>>, -97>>>>,
   <<<<0, 1, <<65>>, -6>>, <<0, -1, <<11327, 168, 127>>, -41>>, <<0, -1, <<10663, 14035, 14835, 497>>, -100>>>>,
   <<<<0, 1, <<65>>, -6>>, <<0, -1, <<11327, 168, 127>>, -41>>, <<0, -1, <<10663, 14035, 14835, 497>>, -100>>>>,
   <<<<0, 1, <<129>>, -7>>, <<0, -1, <<9905, 14346, 31>>, -40>>, <<0, -1, <<4153, 3546, 2300, 414>>, -96>>>>,
   <<<<0, 1, <<129>>, -7>>, <<0, -1, <<9905, 14346, 31>>, -40>>, <<0, -1, <<4153, 3546, 2300, 414>>, -96>>>>,
   <<<<0, 1, <<1>>, 0>>, FZero(1), FZero(1)>>,
   <<<<0, 1, <<1>>, 0>>, FZero(1), FZero(1)>>,
   <<<<0, 1, <<127>>, -7>>, <<0, 1, <<13705, 85, 257>>, -43>>, <<0, -1, <<9597, 3278, 3799, 134>>, -95>>>>,
   <<<<0, 1, <<63>>, -6>>, <<0, 1, <<12583, 690, 516>>, -43>>, <<0, -1, <<15337, 3525, 8920, 635>>, -96>>>>,
   <<<<0, 1, <<125>>, -7>>, <<0, 1, <<10441, 9364, 388>>, -42>>, <<0, -1, <<781, 12890, 744, 426>>, -95>>>>,
   <<<<0, 1, <<31>>, -5>>, <<0, 1, <<10141, 5592, 1040>>, -43>>, <<0, 1, <<5971, 13255, 7173, 1092>>, -99>>>>,
   <<<<0, 1, <<123>>, -7>>, <<0, 1, <<10775, 3421, 163>>, -40>>, <<0, -1, <<16293, 15070, 11494, 224>>, -94>>>>,
   <<<<0, 1, <<61>>, -6>>, <<0, 1, <<4735, 2721, 1573>>, -43>>, <<0, -1, <<9853, 360, 6493, 1630>>, -98>>>>,
   <<<<0, 1, <<121>>, -7>>, <<0, 1, <<14199, 14140, 1842>>, -43>>, <<0, -1, <<10247, 8032, 3876, 1690>>, -98>>>>,
   <<<<0, 1, <<241>>, -8>>, <<0, 1, <<27, 8988, 1978>>, -43>>, <<0, -1, <<15227, 16164, 5092, 1924>>, -99>>>>,
   <<<<0, 1, <<239>>, -8>>, <<0, 1, <<2611, 10106, 2251>>, -43>>, <<0, -1, <<7835, 6198, 9685, 1356>>, -97>>>>,
   <<<<0, 1, <<237>>, -8>>, <<0, 1, <<16015, 16052, 2526>>, -43>>, <<0, 1, <<3799, 5997, 1514, 1842>>, -97>>>>,
   <<<<0, 1, <<235>>, -8>>, <<0, 1, <<11453, 11081, 2804>>, -43>>, <<0, -1, <<3727, 14522, 2097, 909>>, -96>>>>,
   <<<<0, 1, <<117>>, -7>>, <<0, 1, <<11179, 3376, 1472>>, -42>>, <<0, 1, <<13977, 4923, 13421, 899>>, -100>>>>,
   <<<<0, 1, <<29>>, -5>>, <<0, 1, <<13669, 13797, 1612>>, -42>>, <<0, 1, <<9197, 13690, 2785, 610>>, -96>>>>,
   <<<<0, 1, <<115>>, -7>>, <<0, 1, <<11627, 6417, 3509>>, -43>>, <<0, -1, <<10469, 12253, 2050, 1252>>, -98>>>>,
   <<<<0, 1, <<229>>, -8>>, <<0, 1, <<1777, 1408, 1826>>, -42>>, <<0, 1, <<11475, 6506, 11548, 1425>>, -97>>>>,
   <<<<0, 1, <<227>>, -8>>, <<0, 1, <<6225, 10032, 3939>>, -43>>, <<0, -1, <<12847, 5628, 8244, 59>>, -92>>>>,
   <<<<0, 1, <<113>>, -7>>, <<0, 1, <<3807, 4647, 4084>>, -43>>, <<0, -1, <<2813, 16004, 3428, 1357>>, -97>>>>,
   <<<<0, 1, <<7>>, -3>>, <<0, 1, <<4415, 12752, 2187>>, -42>>, <<0, 1, <<1017, 7258, 15302, 573>>, -96>>>>,
   <<<<0, 1, <<223>>, -8>>, <<0, 1, <<8767, 2783, 4522>>, -43>>, <<0, 1, <<9805, 1080, 7737, 458>>, -95>>>>,
   <<<<0, 1, <<221>>, -8>>, <<0, 1, <<6413, 2824, 602>>, -40>>, <<0, 1, <<13473, 11782, 5836, 1255>>, -99>>>>,
   <<<<0, 1, <<55>>, -6>>, <<0, 1, <<345, 16172, 4965>>, -43>>, <<0, 1, <<12937, 3373, 14978, 1419>>, -103>>>>,
   <<<<0, 1, <<109>>, -7>>, <<0, 1, <<13115, 3936, 5265>>, -43>>, <<0, 1, <<14031, 10878, 1778, 172>>, -94>>>>,
   <<<<0, 1, <<217>>, -8>>, <<0, 1, <<2587, 14713, 5415>>, -43>>, <<0, 1, <<15815, 5541, 16014, 1420>>, -97>>>>,
   <<<<0, 1, <<215>>, -8>>, <<0, 1, <<10433, 5039, 5719>>, -43>>, <<0, 1, <<1487, 5662, 7958, 206>>, -95>>>>,
   <<<<0, 1, <<107>>, -7>>, <<0, 1, <<14167, 1186, 5872>>, -43>>, <<0, -1, <<8673, 5744, 6366, 1348>>, -97>>>>,
   <<<<0, 1, <<213>>, -8>>, <<0, 1, <<5189, 9057, 6025>>, -43>>, <<0, -1, <<773, 581, 8455, 1817>>, -98>>>>,
   <<<<0, 1, <<211>>, -8>>, <<0, 1, <<11065, 15039, 395>>, -39>>, <<0, -1, <<11473, 11172, 5450, 1487>>, -99>>>>,
   <<<<0, 1, <<105>>, -7>>, <<0, 1, <<7415, 10603, 405>>, -39>>, <<0, 1, <<16239, 8835, 8837, 1532>>, -99>>>>,
   <<<<0, 1, <<13>>, -4>>, <<0, 1, <<9303, 15783, 3401>>, -42>>, <<0, -1, <<8553, 344, 9269, 1564>>, -97>>>>,
   <<<<0, 1, <<207>>, -8>>, <<0, 1, <<13757, 13845, 6961>>, -43>>, <<0, -1, <<12501, 7513, 11370, 902>>, -98>>>>,
   <<<<0, 1, <<103>>, -7>>, <<0, 1, <<479, 4327, 3560>>, -42>>, <<0, -1, <<2395, 12968, 7714, 937>>, -96>>>>,
   <<<<0, 1, <<205>>, -8>>, <<0, 1, <<12033, 16113, 7279>>, -43>>, <<0, -1, <<5609, 2860, 9110, 573>>, -99>>>>,
   <<<<0, 1, <<203>>, -8>>, <<0, 1, <<3401, 3948, 7601>>, -43>>, <<0, -1, <<12341, 7254, 12975, 1727>>, -97>>>>,
   <<<<0, 1, <<101>>, -7>>, <<0, 1, <<15985, 959, 7763>>, -43>>, <<0, 1, <<8003, 6160, 4647, 72>>, -99>>>>,
   <<<<0, 1, <<201>>, -8>>, <<0, 1, <<9437, 5815, 495>>, -39>>, <<0, -1, <<3601, 5870, 4438, 1672>>, -103>>>>,
   <<<<0, 1, <<25>>, -5>>, <<0, 1, <<2875, 1819, 8089>>, -43>>, <<0, 1, <<3571, 12931, 3052, 111>>, -94>>>>,
   <<<<0, 1, <<99>>, -7>>, <<0, 1, <<2475, 7216, 8418>>, -43>>, <<0, 1, <<3729, 7093, 3505, 1575>>, -100>>>>,
   <<<<0, 1, <<197>>, -8>>, <<0, 1, <<15115, 1452, 2146>>, -41>>, <<0, 1, <<10985, 6387, 2225, 1478>>, -97>>>>,
   <<<<0, 1, <<49>>, -6>>, <<0, 1, <<1277, 1857, 8751>>, -43>>, <<0, -1, <<15367, 9125, 1081, 450>>, -95>>>>,
   <<<<0, 1, <<195>>, -8>>, <<0, 1, <<13727, 11877, 8918>>, -43>>, <<0, 1, <<5761, 7828, 11487, 1766>>, -97>>>>,
   <<<<0, 1, <<97>>, -7>>, <<0, 1, <<11085, 3249, 9087>>, -43>>, <<0, 1, <<15799, 1310, 11989, 1833>>, -97>>>>,
   <<<<0, 1, <<193>>, -8>>, <<0, 1, <<8663, 8886, 9256>>, -43>>, <<0, 1, <<7541, 13453, 16117, 848>>, -98>>>>,
   <<<<0, 1, <<191>>, -8>>, <<0, 1, <<3529, 15391, 4798>>, -42>>, <<0, 1, <<317, 2640, 13289, 425>>, -95>>>>,
   <<<<0, 1, <<95>>, -7>>, <<0, 1, <<3739, 7740, 2442>>, -41>>, <<0, -1, <<10135, 10640, 1269, 199>>, -94>>>>,
   <<<<0, 1, <<189>>, -8>>, <<0, 1, <<11233, 6621, 4971>>, -42>>, <<0, 1, <<12025, 6264, 7579, 139>>, -95>>>>,
   <<<<0, 1, <<47>>, -6>>, <<0, 1, <<13107, 5277, 5058>>, -42>>, <<0, 1, <<12119, 13830, 11602, 387>>, -96>>>>,
   <<<<0, 1, <<187>>, -8>>, <<0, 1, <<15037, 6673, 10291>>, -43>>, <<0, 1, <<8349, 12867, 878, 1593>>, -99>>>>,
   <<<<0, 1, <<93>>, -7>>, <<0, 1, <<3641, 1761, 10467>>, -43>>, <<0, -1, <<5749, 9631, 15584, 1993>>, -97>>>>,
   <<<<0, 1, <<185>>, -8>>, <<0, 1, <<8563, 14375, 5321>>, -42>>, <<0, -1, <<13865, 6922, 548, 482>>, -95>>>>,
   <<<<0, 1, <<23>>, -5>>, <<0, 1, <<14789, 5568, 2705>>, -41>>, <<0, 1, <<1881, 1427, 9992, 1967>>, -97>>>>,
   <<<<0, 1, <<183>>, -8>>, <<0, 1, <<15501, 15828, 5499>>, -42>>, <<0, 1, <<239, 14709, 7902, 2027>>, -98>>>>,
   <<<<0, 1, <<91>>, -7>>, <<0, 1, <<15051, 14267, 2794>>, -41>>, <<0, -1, <<6519, 2212, 11432, 416>>, -97>>>> >>

InvLn2N == <<0, 1, <<383, 2647, 10811, 738>>, -44>>

ExpShift == <<0, 1, <<3>>, 51>>

NegLn2hiN == <<0, -1, <<16253, 7301, 177>>, -43>>

NegLn2loN == <<0, -1, <<7581, 14652, 15573, 926>>, -98>>

\* The coefficients C2, ..., C5 of the polynomial of exp.
ExpPoly ==
  << <<0, 1, <<15805, 16383, 16383, 2047>>, -54>>,
   <<0, 1, <<5391, 5461, 5461, 341>>, -53>>,
   <<0, 1, <<11153, 15452, 5468, 1365>>, -57>>,
   <<0, 1, <<4119, 7827, 4374, 1092>>, -59>> >>

\* T[j] = <<tail, sbits>>, j = 0, ..., 127: 2^(j/128) is about
\* asdouble(sbits + (j << 45)) * (1 + tail); sbits is a 64-bit pattern.
ExpTab ==
  << <<FZero(1), <<0, 0, 0, 15360, 63>>>>,
   <<<<0, 1, <<8119, 13585, 6776, 871>>, -105>>, <<13109, 10220, 9178, 15357, 63>>>>,
   <<<<0, -1, <<7261, 13155, 313, 1112>>, -108>>, <<97, 14814, 2467, 15355, 63>>>>,
   <<<<0, -1, <<9937, 541, 10145, 1047>>, -106>>, <<16261, 8633, 12638, 15352, 63>>>>,
   <<<<0, 1, <<13843, 5535, 9507, 1844>>, -107>>, <<1396, 3158, 6925, 15350, 63>>>>,
   <<<<0, -1, <<1917, 2035, 13313, 889>>, -106>>, <<14046, 10103, 1714, 15348, 63>>>>,
   <<<<0, 1, <<2145, 1947, 13542, 1085>>, -109>>, <<7112, 8662, 13393, 15345, 63>>>>,
   <<<<0, 1, <<5017, 11471, 15941, 1064>>, -106>>, <<13187, 11035, 9196, 15343, 63>>>>,
   <<<<0, 1, <<15213, 13837, 10853, 1510>>, -106>>, <<2319, 13286, 5510, 15341, 63>>>>,
   <<<<0, 1, <<15359, 4861, 5226, 491>>, -105>>, <<2039, 11721, 2338, 15339, 63>>>>,
   <<<<0, 1, <<7377, 190, 9175, 1967>>, -112>>, <<4514, 2895, 16067, 15336, 63>>>>,
   <<<<0, -1, <<11787, 9793, 13128, 1664>>, -109>>, <<4891, 16379, 13930, 15334, 63>>>>,
   <<<<0, -1, <<7815, 5215, 12945, 682>>, -105>>, <<6993, 73, 12317, 15332, 63>>>>,
   <<<<0, -1, <<10837, 12603, 3832, 1056>>, -110>>, <<12748, 432, 11228, 15330, 63>>>>,
   <<<<0, -1, <<14859, 13227, 2333, 569>>, -105>>, <<11744, 15012, 10666, 15328, 63>>>>,
   <<<<0, 1, <<5551, 9585, 15934, 1076>>, -107>>, <<3665, 8854, 10636, 15326, 63>>>>,
   <<<<0, -1, <<12905, 13650, 13867, 128>>, -104>>, <<4475, 12789, 11139, 15324, 63>>>>,
   <<<<0, -1, <<12861, 6008, 16133, 1991>>, -107>>, <<3562, 8754, 12179, 15322, 63>>>>,
   <<<<0, 1, <<5055, 15437, 6339, 1762>>, -107>>, <<2933, 11711, 13758, 15320, 63>>>>,
   <<<<0, -1, <<13715, 11299, 3299, 731>>, -105>>, <<7380, 4113, 15880, 15318, 63>>>>,
   <<<<0, 1, <<4475, 10183, 13947, 53>>, -101>>, <<14762, 1442, 2163, 15317, 63>>>>,
   <<<<0, -1, <<14493, 11800, 14380, 2041>>, -107>>, <<6429, 3059, 5378, 15315, 63>>>>,
   <<<<0, 1, <<909, 4763, 13332, 1691>>, -107>>, <<3286, 8586, 9144, 15313, 63>>>>,
   <<<<0, 1, <<1149, 912, 8283, 1054>>, -107>>, <<7318, 1527, 13465, 15311, 63>>>>,
   <<<<0, 1, <<10789, 9128, 15351, 360>>, -104>>, <<8760, 14805, 1958, 15310, 63>>>>,
   <<<<0, 1, <<2173, 2513, 8591, 1495>>, -107>>, <<9791, 16074, 7396, 15308, 63>>>>,
   <<<<0, 1, <<13305, 12351, 14684, 520>>, -106>>, <<15581, 6025, 13398, 15306, 63>>>>,
   <<<<0, -1, <<1071, 16098, 985, 727>>, -105>>, <<9089, 2005, 3582, 15305, 63>>>>,
   <<<<0, 1, <<11057, 13350, 15894, 1213>>, -107>>, <<7905, 5247, 10719, 15303, 63>>>>,
   <<<<0, -1, <<8189, 13535, 3288, 932>>, -111>>, <<6544, 875, 2045, 15302, 63>>>>,
   <<<<0, 1, <<685, 12812, 7689, 435>>, -105>>, <<779, 7056, 10330, 15300, 63>>>>,
   <<<<0, 1, <<2959, 10043, 2344, 1925>>, -109>>, <<12118, 9464, 2810, 15299, 63>>>>,
   <<<<0, 1, <<5595, 7009, 11178, 617>>, -106>>, <<14101, 10438, 12256, 15297, 63>>>>,
   <<<<0, 1, <<7443, 8876, 2055, 356>>, -105>>, <<6193, 12595, 5903, 15296, 63>>>>,
   <<<<0, 1, <<15397, 15271, 10698, 1019>>, -106>>, <<5887, 2448, 139, 15295, 63>>>>,
   <<<<0, -1, <<5825, 15246, 3584, 362>>, -105>>, <<8177, 15946, 11349, 15293, 63>>>>,
   <<<<0, -1, <<10765, 9765, 5595, 146>>, -103>>, <<10699, 7402, 6771, 15292, 63>>>>,
   <<<<0, -1, <<5831, 13986, 16320, 800>>, -105>>, <<6246, 13335, 2790, 15291, 63>>>>,
   <<<<0, -1, <<7017, 15656, 3905, 570>>, -107>>, <<8183, 5014, 15795, 15289, 63>>>>,
   <<<<0, -1, <<6933, 3896, 4507, 1606>>, -106>>, <<10469, 3150, 13020, 15288, 63>>>>,
   <<<<0, 1, <<3181, 7337, 13450, 1383>>, -107>>, <<13346, 12360, 10852, 15287, 63>>>>,
   <<<<0, -1, <<13509, 13392, 4867, 610>>, -105>>, <<28, 4786, 9296, 15286, 63>>>>,
   <<<<0, -1, <<2395, 8286, 14580, 1577>>, -110>>, <<11818, 2012, 8354, 15285, 63>>>>,
   <<<<0, -1, <<6683, 7462, 2486, 1803>>, -108>>, <<10391, 9538, 8029, 15284, 63>>>>,
   <<<<0, 1, <<11281, 778, 16086, 1240>>, -111>>, <<2349, 390, 8326, 15283, 63>>>>,
   <<<<0, 1, <<9455, 11289, 8339, 1433>>, -106>>, <<87, 13428, 9246, 15282, 63>>>>,
   <<<<0, 1, <<889, 10884, 3613, 1971>>, -109>>, <<15568, 5892, 10795, 15281, 63>>>>,
   <<<<0, 1, <<12579, 4035, 16270, 79>>, -102>>, <<5086, 863, 12975, 15280, 63>>>>,
   <<<<0, 1, <<11003, 11998, 4302, 90>>, -104>>, <<10791, 5336, 15789, 15279, 63>>>>,
   <<<<0, 1, <<8311, 11603, 7134, 1223>>, -106>>, <<7437, 10231, 2857, 15279, 63>>>>,
   <<<<0, -1, <<4551, 227, 8608, 1010>>, -106>>, <<11431, 6772, 6951, 15278, 63>>>>,
   <<<<0, -1, <<9033, 12878, 11469, 1527>>, -107>>, <<9794, 2877, 11690, 15277, 63>>>>,
   <<<<0, -1, <<14431, 13372, 11371, 1591>>, -108>>, <<3970, 6773, 693, 15277, 63>>>>,
   <<<<0, -1, <<11899, 6390, 4663, 706>>, -106>>, <<4623, 10614, 6732, 15276, 63>>>>,
   <<<<0, 1, <<11207, 12795, 10280, 614>>, -105>>, <<10202, 6868, 13427, 15275, 63>>>>,
   <<<<0, 1, <<6917, 15914, 2930, 1766>>, -108>>, <<2045, 4703, 4397, 15275, 63>>>>,
   <<<<0, 1, <<5129, 2161, 15902, 1048>>, -106>>, <<5161, 13601, 12413, 15274, 63>>>>,
   <<<<0, 1, <<9077, 8243, 15402, 664>>, -111>>, <<1719, 10597, 4712, 15274, 63>>>>,
   <<<<0, 1, <<53, 11667, 11874, 1292>>, -106>>, <<8520, 5812, 14065, 15273, 63>>>>,
   <<<<0, -1, <<13983, 1637, 1190, 1849>>, -107>>, <<7177, 9691, 7707, 15273, 63>>>>,
   <<<<0, -1, <<10677, 7671, 10122, 225>>, -104>>, <<5509, 233, 2027, 15273, 63>>>>,
   <<<<0, -1, <<13527, 4695, 7108, 650>>, -106>>, <<800, 4915, 13411, 15272, 63>>>>,
   <<<<0, -1, <<2827, 15403, 7610, 158>>, -103>>, <<8741, 2388, 9096, 15272, 63>>>>,
   <<<<0, 1, <<1625, 126, 682, 369>>, -108>>, <<10611, 4402, 5469, 15272, 63>>>>,
   <<<<0, -1, <<1093, 8111, 10207, 157>>, -103>>, <<15309, 6652, 2534, 15272, 63>>>>,
   <<<<0, -1, <<7361, 3689, 5484, 834>>, -108>>, <<6847, 5167, 295, 15272, 63>>>>,
   <<<<0, -1, <<5367, 12507, 16253, 620>>, -108>>, <<6703, 12692, 15139, 15271, 63>>>>,
   <<<<0, -1, <<2129, 4994, 981, 1079>>, -107>>, <<5252, 9542, 14303, 15271, 63>>>>,
   <<<<0, -1, <<16079, 14696, 13895, 1543>>, -108>>, <<8052, 9137, 14174, 15271, 63>>>>,
   <<<<0, -1, <<14299, 12322, 11850, 91>>, -103>>, <<372, 8854, 14756, 15271, 63>>>>,
   <<<<0, -1, <<13125, 15531, 2448, 707>>, -106>>, <<10185, 6409, 16053, 15271, 63>>>>,
   <<<<0, 1, <<5331, 14375, 3253, 1063>>, -106>>, <<7487, 16249, 1684, 15272, 63>>>>,
   <<<<0, -1, <<9501, 9526, 11723, 1740>>, -108>>, <<391, 4012, 4423, 15272, 63>>>>,
   <<<<0, 1, <<107, 4511, 4053, 1339>>, -106>>, <<306, 1219, 7888, 15272, 63>>>>,
   <<<<0, 1, <<11349, 12121, 15898, 1402>>, -109>>, <<3682, 6973, 12083, 15272, 63>>>>,
   <<<<0, -1, <<10145, 8039, 3625, 788>>, -106>>, <<6674, 4344, 629, 15273, 63>>>>,
   <<<<0, -1, <<3533, 12603, 9947, 310>>, -104>>, <<3603, 9523, 6297, 15273, 63>>>>,
   <<<<0, -1, <<16271, 13363, 13345, 523>>, -106>>, <<1965, 6287, 12708, 15273, 63>>>>,
   <<<<0, -1, <<11191, 12516, 8838, 666>>, -105>>, <<4845, 11538, 3481, 15274, 63>>>>,
   <<<<0, 1, <<1861, 3766, 1387, 2>>, -97>>, <<9881, 9769, 11389, 15274, 63>>>>,
   <<<<0, 1, <<15021, 496, 7359, 475>>, -105>>, <<8411, 2218, 3668, 15275, 63>>>>,
   <<<<0, -1, <<10239, 13079, 9737, 1389>>, -109>>, <<1164, 6869, 13089, 15275, 63>>>>,
   <<<<0, 1, <<6097, 6643, 6669, 447>>, -106>>, <<14134, 9301, 6889, 15276, 63>>>>,
   <<<<0, -1, <<15747, 7288, 4602, 1218>>, -106>>, <<16326, 11847, 1456, 15277, 63>>>>,
   <<<<0, -1, <<7721, 11696, 7048, 1898>>, -110>>, <<1509, 823, 13179, 15277, 63>>>>,
   <<<<0, -1, <<14681, 12866, 16279, 1800>>, -109>>, <<4623, 12065, 9292, 15278, 63>>>>,
   <<<<0, -1, <<15573, 1513, 6681, 584>>, -105>>, <<3664, 16249, 6185, 15279, 63>>>>,
   <<<<0, -1, <<3659, 7578, 9933, 1394>>, -107>>, <<1978, 808, 3863, 15280, 63>>>>,
   <<<<0, 1, <<3623, 11847, 16322, 1131>>, -108>>, <<12432, 2703, 2328, 15281, 63>>>>,
   <<<<0, 1, <<13243, 1065, 9054, 1908>>, -109>>, <<8995, 10124, 1585, 15282, 63>>>>,
   <<<<0, -1, <<8803, 2440, 4162, 1521>>, -107>>, <<9573, 11639, 1639, 15283, 63>>>>,
   <<<<0, 1, <<12757, 3976, 2158, 1735>>, -107>>, <<11571, 12584, 2494, 15284, 63>>>>,
   <<<<0, -1, <<15125, 3826, 15645, 1134>>, -106>>, <<9565, 2296, 4155, 15285, 63>>>>,
   <<<<0, 1, <<6377, 14812, 8588, 537>>, -105>>, <<13144, 3266, 6625, 15286, 63>>>>,
   <<<<0, 1, <<6835, 14797, 6214, 1306>>, -107>>, <<15807, 5607, 9909, 15287, 63>>>>,
   <<<<0, -1, <<10093, 6030, 16182, 301>>, -105>>, <<13178, 16207, 14011, 15288, 63>>>>,
   <<<<0, 1, <<13191, 2860, 10105, 1798>>, -107>>, <<5037, 9579, 2553, 15290, 63>>>>,
   <<<<0, -1, <<11517, 5539, 7290, 527>>, -105>>, <<13926, 9782, 8306, 15291, 63>>>>,
   <<<<0, -1, <<5981, 11705, 7882, 696>>, -109>>, <<5627, 8508, 14891, 15292, 63>>>>,
   <<<<0, -1, <<7129, 9178, 10499, 16>>, -100>>, <<6458, 14229, 5928, 15294, 63>>>>,
   <<<<0, -1, <<9421, 14509, 7120, 397>>, -107>>, <<7751, 3053, 14191, 15295, 63>>>>,
   <<<<0, -1, <<2613, 11618, 11814, 1147>>, -106>>, <<1610, 644, 6915, 15297, 63>>>>,
   <<<<0, 1, <<7629, 10623, 15728, 1343>>, -108>>, <<466, 303, 489, 15299, 63>>>>,
   <<<<0, -1, <<9771, 14994, 14319, 283>>, -104>>, <<7689, 12124, 11301, 15300, 63>>>>,
   <<<<0, 1, <<3251, 700, 10979, 1243>>, -108>>, <<4764, 13845, 6589, 15302, 63>>>>,
   <<<<0, 1, <<16229, 7327, 3273, 494>>, -105>>, <<4218, 16383, 2741, 15304, 63>>>>,
   <<<<0, 1, <<5739, 4361, 575, 334>>, -105>>, <<4427, 14687, 16146, 15305, 63>>>>,
   <<<<0, 1, <<6759, 8504, 6899, 1267>>, -109>>, <<10165, 4123, 14041, 15307, 63>>>>,
   <<<<0, 1, <<813, 13897, 5720, 187>>, -106>>, <<4201, 13246, 12813, 15309, 63>>>>,
   <<<<0, -1, <<6889, 1945, 4292, 529>>, -106>>, <<1018, 5495, 12469, 15311, 63>>>>,
   <<<<0, -1, <<14959, 16383, 5587, 2027>>, -107>>, <<2428, 10270, 13012, 15313, 63>>>>,
   <<<<0, -1, <<10569, 8662, 6883, 1027>>, -106>>, <<2546, 8246, 14448, 15315, 63>>>>,
   <<<<0, 1, <<1959, 6388, 14426, 1320>>, -108>>, <<9351, 13294, 397, 15318, 63>>>>,
   <<<<0, -1, <<8719, 256, 6626, 1188>>, -107>>, <<920, 6950, 3633, 15320, 63>>>>,
   <<<<0, 1, <<9387, 5569, 10563, 485>>, -105>>, <<12933, 3948, 7776, 15322, 63>>>>,
   <<<<0, 1, <<11083, 12293, 9626, 1294>>, -107>>, <<13408, 3078, 12831, 15324, 63>>>>,
   <<<<0, -1, <<15903, 7888, 4624, 1205>>, -107>>, <<7007, 3566, 2419, 15327, 63>>>>,
   <<<<0, -1, <<3529, 11548, 11155, 1610>>, -107>>, <<8489, 5078, 9313, 15329, 63>>>>,
   <<<<0, 1, <<2259, 234, 8262, 1325>>, -108>>, <<16374, 7724, 750, 15332, 63>>>>,
   <<<<0, 1, <<12913, 1653, 7877, 1265>>, -107>>, <<3203, 12061, 9503, 15334, 63>>>>,
   <<<<0, -1, <<14623, 9204, 14098, 127>>, -103>>, <<4314, 2706, 2810, 15337, 63>>>>,
   <<<<0, -1, <<13437, 2189, 10638, 1899>>, -107>>, <<10225, 13881, 13442, 15339, 63>>>>,
   <<<<0, 1, <<1025, 8405, 1912, 246>>, -104>>, <<6695, 14725, 8638, 15342, 63>>>>,
   <<<<0, 1, <<13721, 1875, 7334, 645>>, -106>>, <<14999, 7598, 4787, 15345, 63>>>>,
   <<<<0, 1, <<759, 9123, 9545, 844>>, -106>>, <<1344, 11705, 1893, 15348, 63>>>>,
   <<<<0, -1, <<9197, 4335, 15278, 1933>>, -107>>, <<15892, 13938, 16346, 15350, 63>>>>,
   <<<<0, 1, <<3485, 13895, 5044, 1506>>, -108>>, <<4312, 1658, 15384, 15353, 63>>>>,
   <<<<0, 1, <<3209, 1411, 7188, 1217>>, -110>>, <<12785, 11837, 15394, 15356, 63>>>> >>

\* 2^64 - OFF, OFF = 0x3fe6955500000000 the pattern of 0.7057
PowNegOff == <<0, 0, 10928, 1626, 192>>

\* tmp = ix - OFF; k = (int64_t) tmp >> 52; i = (tmp >> 45) % 128;
\* z = asdouble(ix - (tmp & 0xfffULL << 52)) = x / 2^k: <<k, i, z>>
PowSplit(x) ==
  CHOOSE res \in
    {CHOOSE r2 \in
       {<<k, BSmall(BShr(tmp, 45)) % 128, <<0, 1, x[3], x[4] - k>> >>
        : k \in {BSmall(BShr(tmp, 52)) - 4096}} : TRUE
     : tmp \in {BAdd(AsUint(x), PowNegOff)}} : TRUE

\* The registers at the entry: the constants, y, and kd, z and the entry T[i]
\* of the table for x.
PowRegs(x, y) ==
  CHOOSE res \in
    {[y |-> y, kd |-> FInt(kiz[1]), z |-> kiz[3], MinusOne |-> FInt(-1),
      invc |-> PowLogTab[kiz[2] + 1][1], logc |-> PowLogTab[kiz[2] + 1][2],
      logctail |-> PowLogTab[kiz[2] + 1][3],
      Ln2hi |-> Ln2hi, Ln2lo |-> Ln2lo,
      A0 |-> PowLogPoly[1], A1 |-> PowLogPoly[2], A2 |-> PowLogPoly[3],
      A3 |-> PowLogPoly[4], A4 |-> PowLogPoly[5], A5 |-> PowLogPoly[6],
      A6 |-> PowLogPoly[7],
      InvLn2N |-> InvLn2N, Shift |-> ExpShift, NegLn2hiN |-> NegLn2hiN,
      NegLn2loN |-> NegLn2loN,
      C2 |-> ExpPoly[1], C3 |-> ExpPoly[2], C4 |-> ExpPoly[3], C5 |-> ExpPoly[4]]
     : kiz \in {PowSplit(x)}} : TRUE

\* The floating-point operations of pow in the order of the machine code:
\* <<result, operation, operands>>.  fma is a * b + c, fms is a * b - c, each
\* rounded once.
PowLogCode ==
  << <<"t1",   "fma", "kd", "Ln2hi", "logc">>,
     <<"lo1",  "fma", "kd", "Ln2lo", "logctail">>,
     <<"r",    "fma", "z", "invc", "MinusOne">>,
     <<"ar",   "mul", "r", "A0", "A0">>,
     <<"p1",   "fma", "r", "A2", "A1">>,
     <<"p2",   "fma", "r", "A4", "A3">>,
     <<"t2",   "add", "r", "t1", "t1">>,
     <<"ar2",  "mul", "r", "ar", "ar">>,
     <<"d",    "sub", "t1", "t2", "t2">>,
     <<"ar3",  "mul", "r", "ar2", "ar2">>,
     <<"lo3",  "fms", "ar", "r", "ar2">>,
     <<"lo2",  "add", "d", "r", "r">>,
     <<"p3",   "fma", "r", "A6", "A5">>,
     <<"hi",   "add", "t2", "ar2", "ar2">>,
     <<"e",    "sub", "t2", "hi", "hi">>,
     <<"p4",   "fma", "p3", "ar2", "p2">>,
     <<"lo4",  "add", "e", "ar2", "ar2">>,
     <<"q",    "fma", "ar2", "p4", "p1">>,
     <<"s1",   "add", "lo1", "lo2", "lo2">>,
     <<"s2",   "add", "s1", "lo3", "lo3">>,
     <<"s3",   "add", "s2", "lo4", "lo4">>,
     <<"lo",   "fma", "ar3", "q", "s3">>,
     <<"logx", "add", "hi", "lo", "lo">>,
     <<"u",    "sub", "hi", "logx", "logx">>,
     <<"tail", "add", "u", "lo", "lo">>,
     <<"ehi",  "mul", "y", "logx", "logx">>,
     <<"c",    "fms", "logx", "y", "ehi">>,
     <<"elo",  "fma", "y", "tail", "c">> >>

PowExpCode ==
  << <<"kdp",  "fma", "ehi", "InvLn2N", "Shift">>,
     <<"kd2",  "sub", "kdp", "Shift", "Shift">>,
     <<"r1",   "fma", "kd2", "NegLn2hiN", "ehi">>,
     <<"r2",   "fma", "kd2", "NegLn2loN", "r1">>,
     <<"rr",   "add", "elo", "r2", "r2">>,
     <<"c23",  "fma", "rr", "C3", "C2">>,
     <<"rsq",  "mul", "rr", "rr", "rr">>,
     <<"c45",  "fma", "rr", "C5", "C4">>,
     <<"r4",   "mul", "rsq", "rsq", "rsq">> >>

PowScaleCode ==
  << <<"tr",   "add", "rr", "etail", "etail">>,
     <<"t",    "fma", "c23", "rsq", "tr">>,
     <<"tmp",  "fma", "c45", "r4", "t">>,
     <<"pow",  "fma", "tmp", "scale", "scale">> >>

Operate(op, a, b, c) ==
  CASE op = "fma" -> FFma(a, b, c)
    [] op = "fms" -> FFma(a, b, FNeg(c))
    [] op = "mul" -> FMul(a, b)
    [] op = "add" -> FAdd(a, b)
    [] op = "sub" -> FSub(a, b)

\* The registers after the operations pc, pc + 1, ... of code
RECURSIVE Run(_, _, _)
Run(code, regs, pc) ==
  IF pc > Len(code) THEN regs
  ELSE CHOOSE res \in
         {CHOOSE r2 \in {Run(code, nr, pc + 1)
                         : nr \in {(code[pc][1] :> v) @@ regs}} : TRUE
          : v \in {Operate(code[pc][2], regs[code[pc][3]], regs[code[pc][4]],
                           regs[code[pc][5]])}} : TRUE

\* ki = asuint64(kdp) is the pattern of Shift plus n = kd2;
\* sbits = T[2 * (ki % 128) + 1] + (ki << 45) in 64 bits; scale = asdouble(sbits)
PowScale(n) ==
  CHOOSE res \in
    {AsDouble(IF BitLen(s) > 64 THEN BSub(s, BShl(<<1>>, 64)) ELSE s)
     : s \in {BAdd(ExpTab[(n % 128) + 1][2], BShl(Big(n % 524288), 45))}} : TRUE

\* exp(ehi + elo), 2^-54 <= |ehi| < 2^9
PowExp(regs) ==
  CHOOSE res \in
    {CHOOSE r2 \in
       {Run(PowScaleCode,
            [etail |-> ExpTab[(n % 128) + 1][1], scale |-> PowScale(n)] @@ rg, 1).pow
        : n \in {FTrunc(rg.kd2)}} : TRUE
     : rg \in {Run(PowExpCode, regs, 1)}} : TRUE

\* pow(x, y) for a normal float x > 0, x # 1, and y = 2 or y = 0.5
PowFinite(x, y) ==
  CHOOSE res \in
    {IF FIsZero(rg.ehi) \/ Exponent(rg.ehi) < -54 THEN FAdd(FInt(1), rg.ehi)
     ELSE PowExp(rg)
     : rg \in {Run(PowLogCode, PowRegs(x, y), 1)}} : TRUE

\* x ** 2 (Python turns the int 2 into 2.0): pow(x, 2.0) = pow(|x|, 2.0)
PowTwo(x) ==
  IF FIsNaN(x) THEN FNaN
  ELSE IF FIsInf(x) THEN FInf(1)
  ELSE IF FIsZero(x) THEN FZero(1)
  ELSE IF x[3] = <<1>> /\ x[4] = 0 THEN FInt(1)
  ELSE PowFinite(<<0, 1, x[3], x[4]>>, FInt(2))

\* x ** (1/2) for x >= 0 (x is a sum of squares): pow(x, 0.5)
PowHalf(x) ==
  IF FIsNaN(x) THEN FNaN
  ELSE IF FIsInf(x) THEN FInf(1)
  ELSE IF FIsZero(x) THEN FZero(1)
  ELSE IF x[3] = <<1>> /\ x[4] = 0 THEN FInt(1)
  ELSE PowFinite(x, <<0, 1, <<1>>, -1>>)

----------------------------------------------------------------------------
(* addpts *)

\* dL = ((x2-x1)**2 + (y2-y1)**2)**(1/2)
SegLen(p1, p2) ==
  LET ddx == XSub(p2[1], p1[1])
      ddy == XSub(p2[2], p1[2])
  IN  XSqrt(XAdd(XMul(ddx, ddx), XMul(ddy, ddy)))

\* dL as the float64 it is, from the float64 coordinates q1, q2.
SegLen64(q1, q2) ==
  CHOOSE r \in {PowHalf(FAdd(sq[1], sq[2]))
                : sq \in {<<PowTwo(FSub(q2[1], q1[1])), PowTwo(FSub(q2[2], q1[2]))>>}} : TRUE

\* Mutant of NumPts: one point too many.
NumPts_PlusOne(rem, dL, d) == FTrunc(FDiv(FAdd(rem, dL), d)) + 1

\* n = int((rem_l + dL) / dl), dl # 0, on the float64 rem_l, dL, dl
NumPts(rem, dL, d) == FTrunc(FDiv(FAdd(rem, dL), d))

\* The branch pt == 0: the first point of a segment, dl - rem_l beyond (x1, y1).
FirstPt(p1, p2, rem, dL, d) ==
  LET rem_dx == XDiv(XMul(XSub(p2[1], p1[1]), XSub(d, rem)), dL)
      rem_dy == XDiv(XMul(XSub(p2[2], p1[2]), XSub(d, rem)), dL)
  IN  <<XAdd(p1[1], rem_dx), XAdd(p1[2], rem_dy)>>

\* The branch pt > 0: a further point, dl beyond the previous output point.
NextPt(p1, p2, prev, dL, d) ==
  LET ddx == XDiv(XMul(XSub(p2[1], p1[1]), d), dL)
      ddy == XDiv(XMul(XSub(p2[2], p1[2]), d), dL)
  IN  <<XAdd(prev[1], ddx), XAdd(prev[2], ddy)>>

\* Mutant of NextL: l += [dl]
NextL_NoSum(ls, d) == d

\* l += [l[-1] + dl]
NextL(ls, d) == XAdd(Last(ls), d)

\* rem_l += dL - n*dl
NewRem(rem, dL, n, d) == XAdd(rem, XSub(dL, XMul(R(n), d)))

\* rem_l += dL - n*dl on the float64 rem_l, dL, dl
NewRem64(rem, dL, n, d) == FAdd(rem, FSub(dL, FMul(FInt(n), d)))

\* for pt in range(n): the frame after the points pt, ..., n-1 are appended.
RECURSIVE InnerLoop(_, _, _, _, _, _, _)
InnerLoop(f, p1, p2, dL, d, pt, n) ==
  IF pt >= n THEN f
  ELSE LET p == IF pt = 0 THEN FirstPt(p1, p2, f.rem_l, dL, d)
                ELSE NextPt(p1, p2, <<Last(f.xpts), Last(f.ypts)>>, dL, d)
           g == [f EXCEPT !.xpts = Append(@, p[1]),
                          !.ypts = Append(@, p[2]),
                          !.l = Append(@, NextL(f.l, d))]
           Rest(h) == InnerLoop(h, p1, p2, dL, d, pt + 1, n)
       IN  CHOOSE r \in {Rest(h) : h \in {g}} : TRUE

\* l = [0]; xpts = [coords[0][0]]; ypts = [coords[0][1]]; rem_l = 0
AddptsEntry(coords) ==
  [l |-> <<Zero>>, xpts |-> <<coords[1][1]>>, ypts |-> <<coords[1][2]>>,
   rem_l |-> Zero, rem_l64 |-> FZero(1), err |-> "none"]

\* One iteration of the loop over the segments, on the frame f of the call;
\* q1, q2 are the float64 coordinates of p1, p2.
\* A Python float division by zero raises ZeroDivisionError: in (rem_l + dL) / dl
\* when dl = 0, in ... / dL when a point is due on a segment of length 0.
SegmentBody(f, p1, p2, q1, q2, d) ==
  IF d[1] = 0 THEN [f EXCEPT !.err = "ZeroDivisionError"]
  ELSE LET dL == SegLen(p1, p2)
           Points(dL64, d64, n) ==
             IF n > 0 /\ FIsZero(dL64) THEN [f EXCEPT !.err = "ZeroDivisionError"]
             ELSE [InnerLoop(f, p1, p2, dL, d, 0, n)
                     EXCEPT !.rem_l = NewRem(f.rem_l, dL, n, d),
                            !.rem_l64 = NewRem64(f.rem_l64, dL64, n, d64)]
           Count(dL64, d64) ==
             CHOOSE r \in {Points(dL64, d64, n)
                           : n \in {NumPts(f.rem_l64, dL64, d64)}} : TRUE
       IN  CHOOSE r \in {Count(dL64, d64)
                         : dL64 \in {SegLen64(q1, q2)}, d64 \in {F64(d)}} : TRUE

\* The frame after the segments k, k+1, ... of coords (c64: the same
\* coordinates as float64), stopping at an exception.
RECURSIVE SegmentsFrom(_, _, _, _, _)
SegmentsFrom(f, coords, c64, d, k) ==
  IF k >= Len(coords) \/ f.err # "none" THEN f
  ELSE LET Rest(g) == SegmentsFrom(g, coords, c64, d, k + 1)
       IN  CHOOSE r \in {Rest(g) : g \in {SegmentBody(f, coords[k], coords[k + 1],
                                                      c64[k], c64[k + 1], d)}} : TRUE

\* addpts(linestring, dl) as a whole: the frame at the return (err = "none",
\* the result is (l, xpts, ypts)) or at the exception.
Addpts(coords, c64, d) == SegmentsFrom(AddptsEntry(coords), coords, c64, d, 1)

----------------------------------------------------------------------------
(* make_perp_transects: the body of the loop at index i *)
(* (sequences are 1-based here: the code's i is i - 1, its range(1, len-1)  *)
(* is 2..Len-1)                                                             *)

\* ypts[i+1] - ypts[i-1] and xpts[i+1] - xpts[i-1]
TangentDy(cy, i) == XSub(cy[i + 1], cy[i - 1])
TangentDx(cx, i) == XSub(cx[i + 1], cx[i - 1])

\* The exception lines 87-88 raise on Python numbers (int, float): a division
\* by zero in S when the x's are equal, in St when S == 0.  numpy scalars give
\* inf or nan there and go on.
SlopeError(cx, cy, isnp, i) ==
  IF isnp THEN "none"
  ELSE IF TangentDx(cx, i)[1] = 0 THEN "ZeroDivisionError"
  ELSE IF TangentDy(cy, i)[1] = 0 THEN "ZeroDivisionError"
  ELSE "none"

\* S = (ypts[i+1] - ypts[i-1]) / (xpts[i+1] - xpts[i-1])
Slope(cx, cy, i) == XDiv(TangentDy(cy, i), TangentDx(cx, i))

\* St = -1/S
PerpSlope(S) == XDiv(R(-1), S)

\* x_shift = L / (2 * np.sqrt(1 + (St)**2))
XShift(len, St) == XDiv(len, XMul(R(2), XSqrt(XAdd(R(1), XMul(St, St)))))

\* y_shift = St * x_shift
YShift(St, x_shift) == XMul(St, x_shift)

\* (x1, y1), (x2, y2): the point i moved by +shift and by -shift
Endpoints(cx, cy, len, i) ==
  LET St == PerpSlope(Slope(cx, cy, i))
      x_shift == XShift(len, St)
      y_shift == YShift(St, x_shift)
  IN  << <<XAdd(cx[i], x_shift), XAdd(cy[i], y_shift)>>,
         <<XSub(cx[i], x_shift), XSub(cy[i], y_shift)>> >>

\* S, St, x_shift, y_shift and the endpoints as the float64 they are.
Slope64(cx, cy, i) ==
  FDiv(FSub(F64(cy[i + 1]), F64(cy[i - 1])), FSub(F64(cx[i + 1]), F64(cx[i - 1])))

PerpSlope64(S) == FDiv(FInt(-1), S)

XShift64(len, St) ==
  FDiv(F64(len), FMul(FInt(2), FSqrt(FAdd(FInt(1), PowTwo(St)))))

YShift64(St, x_shift) == FMul(St, x_shift)

Endpoints64(cx, cy, len, i) ==
  CHOOSE r \in
    {CHOOSE r2 \in
       {CHOOSE r3 \in
          {<< <<FAdd(F64(cx[i]), x_shift), FAdd(F64(cy[i]), y_shift)>>,
              <<FSub(F64(cx[i]), x_shift), FSub(F64(cy[i]), y_shift)>> >>
           : y_shift \in {YShift64(St, x_shift)}} : TRUE
        : x_shift \in {XShift64(len, St)}} : TRUE
     : St \in {PerpSlope64(Slope64(cx, cy, i))}} : TRUE

\* Mutant of Orient: the same order of the endpoints in both branches.
Orient_NoSwap(cy, i, e, ln) ==
  IF RLess(cy[i - 1], cy[i + 1]) THEN <<e[1], e[2]>>
  ELSE IF RLess(cy[i + 1], cy[i - 1]) THEN <<e[1], e[2]>>
  ELSE ln

\* The if / elif of lines 101-104: the coordinates of `line` after it; ln, the
\* value `line` had before, is kept when neither branch is taken.
Orient(cy, i, e, ln) ==
  IF RLess(cy[i - 1], cy[i + 1]) THEN <<e[2], e[1]>>
  ELSE IF RLess(cy[i + 1], cy[i - 1]) THEN <<e[1], e[2]>>
  ELSE ln

\* One iteration: the exception it raises ("none" otherwise), `line` after
\* it (line64: its coordinates as float64), whether the iteration assigned
\* `line`, and the transect it appends.
\* Reading the unbound local `line` raises UnboundLocalError.
LoopBody(cx, cy, len, res, isnp, i, ln, ln64) ==
  IF SlopeError(cx, cy, isnp, i) # "none"
  THEN [err |-> SlopeError(cx, cy, isnp, i), line |-> ln, line64 |-> ln64,
        assigned |-> FALSE, transect |-> <<>>]
  ELSE LET asg == RLess(cy[i - 1], cy[i + 1]) \/ RLess(cy[i + 1], cy[i - 1])
           Resample(new, new64) ==
             IF new = <<>>
             THEN [err |-> "UnboundLocalError", line |-> new, line64 |-> new64,
                   assigned |-> asg, transect |-> <<>>]
             ELSE LET Result(f) ==
                        [err |-> f.err, line |-> new, line64 |-> new64,
                         assigned |-> asg,
                         transect |-> IF f.err = "none" THEN <<f.xpts, f.ypts, f.l>>
                                      ELSE <<>>]
                  IN  CHOOSE r \in {Result(f) : f \in {Addpts(new, new64, res)}} : TRUE
       IN  CHOOSE r \in
             {Resample(new, new64)
              : new \in {Orient(cy, i, Endpoints(cx, cy, len, i), ln)},
                new64 \in {Orient(cy, i, Endpoints64(cx, cy, len, i), ln64)}} : TRUE

----------------------------------------------------------------------------
(* State *)

VARIABLES
  op,          \* the function under call: "addpts" or "make_perp_transects"
  pc,          \* "loop" (in the for loop), "returned" or "raised"
  err,         \* the exception that ended the call, "none" otherwise
  linestring,  \* addpts: linestring.coords, a sequence of points <<x, y>>
  dl,          \* addpts: the interval
  l,           \* addpts: list of distances along the line
  xpts,        \* addpts: list of x coordinates
  ypts,        \* addpts: list of y coordinates
  rem_l,       \* addpts: the carried remainder
  rem_l64,     \* addpts: the carried remainder as the float64 it is
  seg,         \* addpts: the segment the loop is at, (coords[seg], coords[seg+1])
  cxpts,       \* make_perp_transects: the argument xpts (centerline x)
  cypts,       \* make_perp_transects: the argument ypts (centerline y)
  L,           \* make_perp_transects: length of a transect
  DEM_res,     \* make_perp_transects: resolution along a transect
  np,          \* make_perp_transects: TRUE when xpts, ypts hold numpy scalars
  i,           \* make_perp_transects: the loop index (1-based: Python's i is i - 1)
  transects,   \* make_perp_transects: the list of (trans_x, trans_y, trans_l)
  line,        \* make_perp_transects: the local `line` (<<>> while unbound)
  line64,      \* make_perp_transects: the coordinates of `line` as float64
  line_at      \* history: the index i at which `line` was last assigned (0: never)

addptsVars == <<linestring, dl, l, xpts, ypts, rem_l, rem_l64, seg>>
perpVars == <<cxpts, cypts, L, DEM_res, np, i, transects, line, line64, line_at>>
vars == <<op, pc, err, linestring, dl, l, xpts, ypts, rem_l, rem_l64, seg,
          cxpts, cypts, L, DEM_res, np, i, transects, line, line64, line_at>>

----------------------------------------------------------------------------
(* Inputs *)

MaxVerts == 3
MaxDl2 == 4
MaxPts == 4

\* Coordinates of the input points: differences 0, 1, 3, 4 and the oblique
\* chords (3, 4), (4, 3) of length 5, in every direction.
Coords == {0, 3, 4}

Pt(x, y) == <<R(x), R(y)>>

Vertices == {Pt(x, y) : x \in Coords, y \in Coords}

\* The same grid in tenths: 0.3 and 0.4 are not float64 values, the
\* coordinates the code sees are their roundings.
Tenth(x, y) == <<Norm(x, 10), Norm(y, 10)>>

TenthVertices == {Tenth(x, y) : x \in Coords, y \in Coords}

\* The distance from p to q is rational (the segment may have length 0).
RationalDist(p, q) ==
  LET ddx == XSub(q[1], p[1])
      ddy == XSub(q[2], p[2])
      sq == XAdd(XMul(ddx, ddx), XMul(ddy, ddy))
  IN  IsSquare(sq[1]) /\ IsSquare(sq[2])

\* The polylines of n vertices out of V.
RECURSIVE PolylinesOfLen(_, _)
PolylinesOfLen(V, n) ==
  IF n = 1 THEN {<<p>> : p \in V}
  ELSE {Append(sp[1], sp[2]) :
          sp \in {c \in PolylinesOfLen(V, n - 1) \X V : RationalDist(Last(c[1]), c[2])}}

\* A shapely LineString has at least 2 coordinates.
Polylines ==
  UNION {PolylinesOfLen(V, n) : V \in {Vertices, TenthVertices}, n \in 2..MaxVerts}

\* The intervals: -1, 0, the halves up to MaxDl2 / 2 and the tenths up to
\* MaxDl2 / 10.  With the tenths the quotient (rem_l + dL) / dl is a rounded
\* float: 0.3 / 0.1 is 2.9999999999999996.
Intervals ==
  {R(-1), Zero} \cup {Norm(k, 2) : k \in 1..MaxDl2} \cup {Norm(k, 10) : k \in 1..MaxDl2}

\* The points of a centerline: the grid points on an axis and the far ends
\* (3, 4), (4, 3) of the oblique chords: x * y = 0 or x # y.
CenterPoints == {p \in Vertices : p[1][1] * p[2][1] = 0 \/ p[1] # p[2]}

\* Centerlines: every tangent chord (point i-1 to point i+1) has a rational
\* length, so that the value of np.sqrt(1 + St**2) is a rational.
RECURSIVE CenterlinesOfLen(_)
CenterlinesOfLen(n) ==
  IF n = 0 THEN {<<>>}
  ELSE {Append(sp[1], sp[2]) :
          sp \in {c \in CenterlinesOfLen(n - 1) \X CenterPoints :
                    n >= 3 => RationalDist(c[1][n - 2], c[2])}}

Centerlines == UNION {CenterlinesOfLen(n) : n \in 0..MaxPts}

Xs(c) == [k \in 1..Len(c) |-> c[k][1]]
Ys(c) == [k \in 1..Len(c) |-> c[k][2]]

\* (L, DEM_res).  With L = 4 and DEM_res = 2, L is a multiple of DEM_res: on
\* an oblique transect the endpoints are rounded floats, the length addpts
\* measures can fall just short of L, and the last point is then left out.
Sampling == {<<R(3), R(2)>>, <<R(4), R(2)>>, <<R(4), Norm(3, 2)>>}

----------------------------------------------------------------------------
(* The call addpts(linestring, dl), one action per iteration of the loop *)

InitAddpts ==
  /\ op = "addpts"
  /\ pc = "loop"
  /\ err = "none"
  /\ linestring \in Polylines
  /\ dl \in Intervals
  /\ l = AddptsEntry(linestring).l
  /\ xpts = AddptsEntry(linestring).xpts
  /\ ypts = AddptsEntry(linestring).ypts
  /\ rem_l = AddptsEntry(linestring).rem_l
  /\ rem_l64 = AddptsEntry(linestring).rem_l64
  /\ seg = 1
  /\ cxpts = <<>> /\ cypts = <<>> /\ L = Zero /\ DEM_res = Zero /\ np = FALSE
  /\ i = 0 /\ transects = <<>> /\ line = <<>> /\ line64 = <<>> /\ line_at = 0

AddptsFrame ==
  [l |-> l, xpts |-> xpts, ypts |-> ypts, rem_l |-> rem_l, rem_l64 |-> rem_l64,
   err |-> err]

\* The body of the for loop for the segment seg.
AddptsSegment ==
  /\ op = "addpts" /\ pc = "loop" /\ seg < Len(linestring)
  /\ \E f \in {SegmentBody(AddptsFrame, linestring[seg], linestring[seg + 1],
                            F64Pt(linestring[seg]), F64Pt(linestring[seg + 1]), dl)} :
         /\ l' = f.l /\ xpts' = f.xpts /\ ypts' = f.ypts /\ rem_l' = f.rem_l
         /\ rem_l64' = f.rem_l64
         /\ err' = f.err
         /\ pc' = IF f.err = "none" THEN "loop" ELSE "raised"
         /\ seg' = IF f.err = "none" THEN seg + 1 ELSE seg
  /\ UNCHANGED <<op, linestring, dl>>
  /\ UNCHANGED perpVars

\* return(l, xpts, ypts)
AddptsReturn ==
  /\ op = "addpts" /\ pc = "loop" /\ seg = Len(linestring)
  /\ pc' = "returned"
  /\ UNCHANGED <<op, err>>
  /\ UNCHANGED addptsVars
  /\ UNCHANGED perpVars

NextAddpts == AddptsSegment \/ AddptsReturn

SpecAddpts == InitAddpts /\ [][NextAddpts]_vars

----------------------------------------------------------------------------
(* The call make_perp_transects(xpts, ypts, L, DEM_res), one action per     *)
(* iteration of the loop                                                    *)

InitPerp ==
  /\ op = "make_perp_transects"
  /\ pc = "loop"
  /\ err = "none"
  /\ \E c \in Centerlines : cxpts = Xs(c) /\ cypts = Ys(c)
  /\ \E s \in Sampling : L = s[1] /\ DEM_res = s[2]
  /\ np \in BOOLEAN
  /\ i = 2
  /\ transects = <<>>
  /\ line = <<>>
  /\ line64 = <<>>
  /\ line_at = 0
  /\ linestring = <<>> /\ dl = Zero /\ l = <<>> /\ xpts = <<>> /\ ypts = <<>>
  /\ rem_l = Zero /\ rem_l64 = FZero(1) /\ seg = 0

\* The body of the for loop at index i.
PerpIteration ==
  /\ op = "make_perp_transects" /\ pc = "loop" /\ i <= Len(cxpts) - 1
  /\ \E b \in {LoopBody(cxpts, cypts, L, DEM_res, np, i, line, line64)} :
         /\ err' = b.err
         /\ line' = b.line
         /\ line64' = b.line64
         /\ line_at' = IF b.assigned THEN i ELSE line_at
         /\ pc' = IF b.err = "none" THEN "loop" ELSE "raised"
         /\ i' = IF b.err = "none" THEN i + 1 ELSE i
         /\ transects' = IF b.err = "none" THEN Append(transects, b.transect)
                         ELSE transects
  /\ UNCHANGED <<op, cxpts, cypts, L, DEM_res, np>>
  /\ UNCHANGED addptsVars

\* return transects
PerpReturn ==
  /\ op = "make_perp_transects" /\ pc = "loop" /\ i > Len(cxpts) - 1
  /\ pc' = "returned"
  /\ UNCHANGED <<op, err>>
  /\ UNCHANGED perpVars
  /\ UNCHANGED addptsVars

NextPerp == PerpIteration \/ PerpReturn

SpecPerp == InitPerp /\ [][NextPerp]_vars

Init == InitAddpts \/ InitPerp

Next == AddptsSegment \/ AddptsReturn \/ PerpIteration \/ PerpReturn

Spec == Init /\ [][Next]_vars

----------------------------------------------------------------------------
(* Reference notions the properties are stated with *)

IsAddpts == op = "addpts"
IsPerp == op = "make_perp_transects"
Positive(a) == RLess(Zero, a)

\* Total Euclidean length of the segments 1 .. k-1 of coords.
RECURSIVE LengthUpTo(_, _)
LengthUpTo(coords, k) ==
  IF k <= 1 THEN Zero
  ELSE XAdd(LengthUpTo(coords, k - 1), SegLen(coords[k - 1], coords[k]))

TotalLength(coords) == LengthUpTo(coords, Len(coords))

\* The point of the polyline at arc length s beyond the vertex k (s >= 0);
\* <<NaN, NaN>> when the polyline ends before.
RECURSIVE PointAtArc(_, _, _)
PointAtArc(coords, k, s) ==
  IF k >= Len(coords) THEN (IF s = Zero THEN coords[k] ELSE <<NaN, NaN>>)
  ELSE LET dL == SegLen(coords[k], coords[k + 1])
       IN  IF s = Zero THEN coords[k]
           ELSE IF RLeq(s, dL)
           THEN <<XAdd(coords[k][1],
                       XDiv(XMul(XSub(coords[k + 1][1], coords[k][1]), s), dL)),
                  XAdd(coords[k][2],
                       XDiv(XMul(XSub(coords[k + 1][2], coords[k][2]), s), dL))>>
           ELSE PointAtArc(coords, k + 1, XSub(s, dL))

HasZeroSegment(coords) == \E k \in 1..(Len(coords) - 1) : coords[k] = coords[k + 1]

\* z component of u x v for the vectors u, v.
Cross(u, v) == XSub(XMul(u[1], v[2]), XMul(u[2], v[1]))

Tangent(k) == <<TangentDx(cxpts, k), TangentDy(cypts, k)>>
FromCenter(k, p) == <<XSub(p[1], cxpts[k]), XSub(p[2], cypts[k])>>
Oblique(k) == TangentDx(cxpts, k)[1] # 0 /\ TangentDy(cypts, k)[1] # 0
Horizontal(k) == TangentDy(cypts, k)[1] = 0
FirstPoint(t) == <<t[1][1], t[2][1]>>

----------------------------------------------------------------------------
(* Properties of addpts, under SpecAddpts *)

\* C1: with dl > 0 the arc-length list starts with 0, consecutive values
\* differ by exactly dl and increase strictly: the k-th value is k*dl.
C1_ArcLengthSteps ==
  (IsAddpts /\ Positive(dl)) =>
    /\ l[1] = Zero
    /\ \A k \in 1..Len(l) : l[k] = XMul(R(k - 1), dl)
    /\ \A k \in 1..(Len(l) - 1) : XSub(l[k + 1], l[k]) = dl /\ RLess(l[k], l[k + 1])

C1_Witness ==
  /\ IsAddpts /\ pc = "returned" /\ dl = Norm(3, 2)
  /\ Len(linestring) = 3 /\ seg = 3 /\ Len(l) >= 5

\* C2: with dl > 0 the three lists have equal length, point 0 is the first
\* vertex and the k-th point is the point of the polyline at arc length k*dl.
C2_PointsAtArcLength ==
  (IsAddpts /\ Positive(dl) /\ pc # "raised") =>
    /\ Len(l) = Len(xpts) /\ Len(xpts) = Len(ypts)
    /\ <<xpts[1], ypts[1]>> = linestring[1]
    /\ \A k \in 1..Len(xpts) :
         <<xpts[k], ypts[k]>> = PointAtArc(linestring, 1, XMul(R(k - 1), dl))

\* Segments of 0.3 and 0.4 with dl = 0.1.  0.3 / 0.1 is 2.9999999999999996
\* in float64: the first segment gives two points, not three, and the point
\* at arc length 3 * dl comes out of the second segment, at the vertex.
C2_Witness ==
  /\ IsAddpts /\ pc = "returned" /\ dl = Norm(1, 10)
  /\ linestring = <<Tenth(0, 0), Tenth(0, 3), Tenth(4, 3)>>
  /\ Len(xpts) = 8
  /\ <<xpts[4], ypts[4]>> = linestring[2]
  /\ <<xpts[8], ypts[8]>> = linestring[3]

\* C3: with dl > 0 the call returns floor(T/dl) + 1 points, T the total
\* length: the last arc length is at most T, less than dl short of it, and
\* equal to T exactly when T is a multiple of dl.
C3_PointCount ==
  (IsAddpts /\ Positive(dl) /\ pc = "returned") =>
    LET T == TotalLength(linestring)
    IN  /\ Len(l) = Trunc(XDiv(T, dl)) + 1
        /\ RLeq(Last(l), T)
        /\ RLess(XSub(T, Last(l)), dl)
        /\ (Last(l) = T) <=> (XDiv(T, dl)[2] = 1)

\* C6: a call with dl <= 0 fails, it never returns a point sequence.
C6_NonPositiveIntervalFails ==
  (IsAddpts /\ ~Positive(dl)) => pc # "returned"

\* C7: with dl > 0 a polyline with a zero-length segment makes the
\* call fail with DegenerateGeometry, it never returns.
C7_ZeroSegmentFails ==
  (IsAddpts /\ Positive(dl) /\ HasZeroSegment(linestring)) =>
    /\ pc # "returned"
    /\ pc = "raised" => err = "DegenerateGeometry"

\* C10: with dl > 0, after every processed segment 0 <= rem_l < dl, rem_l is
\* the length processed so far minus dl times the number of points emitted
\* (the initial vertex not counted), and dl - rem_l is in (0, dl].
C10_Remainder ==
  (IsAddpts /\ Positive(dl) /\ pc # "raised") =>
    /\ RLeq(Zero, rem_l) /\ RLess(rem_l, dl)
    /\ rem_l = XSub(LengthUpTo(linestring, seg), XMul(R(Len(l) - 1), dl))
    /\ Positive(XSub(dl, rem_l)) /\ RLeq(XSub(dl, rem_l), dl)

----------------------------------------------------------------------------
(* Properties of make_perp_transects, under SpecPerp *)

\* The transect the iteration at index k builds from its own endpoints.
OwnTransect(k) == LoopBody(cxpts, cypts, L, DEM_res, np, k, <<>>, <<>>).transect

\* C4: for a centerline of n >= 3 points the call returns n - 2 transects,
\* the k-th of them the one built for the k-th interior point.
C4_TransectCountAndOrder ==
  (IsPerp /\ Len(cxpts) >= 3 /\ pc # "loop") =>
    /\ pc = "returned"
    /\ Len(transects) = Len(cxpts) - 2
    /\ \A k \in 1..Len(transects) : transects[k] = OwnTransect(k + 1)

\* C5: where the neighbours of an interior point differ in x and in y, the
\* first point of its transect is strictly left of the direction of travel
\* (tangent x (first point - centerline point) > 0), and the other endpoint of
\* the perpendicular segment is strictly right of it.
C5_FirstPointOnLeft ==
  IsPerp =>
    /\ \A k \in 1..Len(transects) :
         Oblique(k + 1) =>
           Positive(Cross(Tangent(k + 1), FromCenter(k + 1, FirstPoint(transects[k]))))
    /\ LET k == Len(transects)
       IN  (k >= 1 /\ line_at = k + 1 /\ Oblique(k + 1)) =>
             /\ line[1] = FirstPoint(transects[k])
             /\ Positive(Cross(Tangent(k + 1), FromCenter(k + 1, line[1])))
             /\ RLess(Cross(Tangent(k + 1), FromCenter(k + 1, line[2])), Zero)

\* Transects built for a tangent going up (dy > 0) and for one going down
\* (dy < 0), the second with dx < 0.
C5_Witness ==
  /\ IsPerp /\ pc = "returned" /\ Len(transects) = 2
  /\ Oblique(2) /\ Oblique(3)
  /\ Positive(TangentDy(cypts, 2))
  /\ RLess(TangentDy(cypts, 3), Zero) /\ RLess(TangentDx(cxpts, 3), Zero)

\* C8: a call with fewer than 3 centerline points fails, it never returns a
\* transect collection.
C8_ShortCenterlineFails ==
  (IsPerp /\ Len(cxpts) < 3) => pc # "returned"

\* C9: every transect appended at index i is resampled from the segment the
\* iteration i itself built, never from the `line` an earlier index left.
C9_NoLeftoverLine ==
  (IsPerp /\ Len(transects) >= 1) => line_at = Len(transects) + 1

====
